---------------------------- MODULE Spec2Model ----------------------------
(***************************************************************************)
(* Model of ctxform: the context-elimination transformer                   *)
(* (ctxform/transform.py), the substitution functions (ctxform/common.py) *)
(* and the pretty printer used to name fresh propositions                  *)
(* (ctxform/printer.py).                                                   *)
(*                                                                         *)
(* Formulas are the tuples of the source: (Op.VAR, name), (Op.LIT, bool),  *)
(* (Op.CTX, name, arg), (Op.HOLE,), (op, arg) and (op, left, right).       *)
(* A Python string is modelled as the sequence of its characters, so that  *)
(* str.replace and string equality are computed, not assumed.              *)
(***************************************************************************)
EXTENDS Integers, Sequences, FiniteSets, TLC

VARIABLES
    left,         \* Problem.left
    right,        \* Problem.right
    monotonic,    \* Transformer.monotonic
    logic,        \* Transformer.logic: "ltl", "ctl" or "bool"
    ctx_map,      \* Transformer.ctx_map, an insertion-ordered dictionary
    ctx_ap_map,   \* Transformer.ctx_ap_map, an insertion-ordered dictionary
    gen,          \* (gen_left, gen_right, gen_cond) once translate has run
    canonical,    \* the dictionary returned by canonical_context()
    inst,         \* the canonical context instantiated for one occurrence
    subst,        \* a substitution problem: name, f, r and the two results
    call,         \* the arguments of the function under study, outside a Problem
    result,       \* what that function returned or raised
    var_map,      \* the var_map of a BoolProblem or CTLProblem
    pc            \* position in the life of the Problem

\* The state of a Problem and of its Transformer
problemVars == <<left, right, monotonic, logic, ctx_map, ctx_ap_map, gen, canonical, inst, subst>>

\* The state of the functions studied on their own
funcVars == <<call, result, var_map>>

vars == <<left, right, monotonic, logic, ctx_map, ctx_ap_map, gen, canonical, inst, subst,
          call, result, var_map, pc>>

-----------------------------------------------------------------------------
(* Bounds of the model *)

\* Total number of nodes of the two input formulas
MaxNodes == 5

\* Total number of nodes of the formula and the replacement of a substitution
MaxSubstNodes == 5

-----------------------------------------------------------------------------
(* Python values *)

None == <<"None">>

\* Insertion-ordered dictionaries are sequences of <<key, value>> pairs
DictHas(d, k) == \E i \in 1..Len(d) : d[i][1] = k

DictGet(d, k, default) ==
    IF DictHas(d, k)
    THEN d[CHOOSE i \in 1..Len(d) : d[i][1] = k][2]
    ELSE default

\* d[k] = v: an existing key keeps its position, a new key goes last
DictSet(d, k, v) ==
    IF DictHas(d, k)
    THEN [i \in 1..Len(d) |-> IF d[i][1] = k THEN <<k, v>> ELSE d[i]]
    ELSE Append(d, <<k, v>>)

DictKeys(d) == [i \in 1..Len(d) |-> d[i][1]]

RECURSIVE Concat(_)
\* ''.join(parts)
Concat(parts) ==
    IF parts = <<>> THEN <<>> ELSE Head(parts) \o Concat(Tail(parts))

-----------------------------------------------------------------------------
(* Formulas (parser.py) *)

Operator == {"LIT", "VAR", "CTX", "HOLE",
             "NEGATION", "DISJUNCTION", "CONJUNCTION",
             "IMPLICATION", "EXCLUSION", "EQUIVALENCE",
             "NEXT", "EVENTUALLY", "ALWAYS",
             "UNTIL", "WUNTIL", "RELEASE", "SRELEASE",
             "FORALL", "EXISTS"}

\* The characters of the identifiers of the model.  The ID terminal admits
\* a plain word or any text without double quotes between double quotes,
\* and the token value keeps the quotes.
QUOTE == "\""

Var(name) == <<"VAR", name>>
Lit(value) == <<"LIT", value>>
Ctx(name, arg) == <<"CTX", name, arg>>
Hole == <<"HOLE">>

Head1(ast) == ast[1]

\* head, *args = ast
Args(ast) == Tail(ast)


-----------------------------------------------------------------------------
(* Pretty printer (printer.py), with color=False *)

\* PRETTY_MAP: the preferred symbol and the priority of each operator.  The
\* symbols of the source that are not ASCII are written here with one ASCII
\* character each: ~ for the negation sign, | for the disjunction sign,
\* & for the conjunction sign, > for the arrow, ^ for the exclusion sign
\* and = for the double arrow.
PRETTY_MAP(head) ==
    CASE head = "NEGATION"    -> <<"~", 5>>
      [] head = "DISJUNCTION" -> <<"|", 2>>
      [] head = "CONJUNCTION" -> <<"&", 3>>
      [] head = "IMPLICATION" -> <<">", 0>>
      [] head = "EXCLUSION"   -> <<"^", 1>>
      [] head = "EQUIVALENCE" -> <<"=", 0>>
      [] head = "NEXT"        -> <<"X", 5>>
      [] head = "EVENTUALLY"  -> <<"F", 5>>
      [] head = "ALWAYS"      -> <<"G", 5>>
      [] head = "UNTIL"       -> <<"U", 4>>
      [] head = "WUNTIL"      -> <<"W", 4>>
      [] head = "RELEASE"     -> <<"R", 4>>
      [] head = "SRELEASE"    -> <<"M", 4>>
      [] head = "EXISTS"      -> <<"E", 5>>
      [] head = "FORALL"      -> <<"A", 5>>

\* Keep identifiers as is
no_colorizer(stype, text) == text

\* Auxiliary function to put parentheses; the pair is (symbol, priority)
put_parens(pair, priority) ==
    IF pair[2] <= priority THEN <<"(">> \o pair[1] \o <<")">> ELSE pair[1]

RECURSIVE pretty_print_rec(_)
\* _pretty_print(ast, no_colorizer): the text and its priority
pretty_print_rec(ast) ==
    LET head == Head1(ast)
        args == Args(ast)
    IN  CASE head = "VAR" -> <<no_colorizer(head, args[1]), 6>>
          [] head = "LIT" ->
                <<no_colorizer(head, IF args[1] THEN <<"t", "r", "u", "e">>
                                                ELSE <<"f", "a", "l", "s", "e">>), 6>>
          [] head = "CTX" ->
                <<no_colorizer(head, args[1]) \o <<"[">>
                      \o pretty_print_rec(args[2])[1] \o <<"]">>, 6>>
          [] head = "HOLE" -> <<<<"HOLE_SIGN">>, 6>>
          [] OTHER ->
                LET symbol == PRETTY_MAP(head)[1]
                    prio == PRETTY_MAP(head)[2]
                    pp_args == [i \in 1..Len(args) |->
                                   put_parens(pretty_print_rec(args[i]), prio)]
                IN  IF Len(args) = 1
                    THEN <<<<symbol>> \o pp_args[1], prio>>
                    ELSE <<pp_args[1] \o <<" ", symbol, " ">> \o pp_args[2], prio>>

pretty_print(ast) == pretty_print_rec(ast)[1]

\* str.replace(old, ''): every occurrence of the character is removed
replace_char(text, old) == SelectSeq(text, LAMBDA ch : ch # old)

-----------------------------------------------------------------------------
(* Logic-specific premise wrapper: LTLSpec, CTLSpec and BoolSpec *)

Logics == {"ltl", "ctl", "bool"}

wrap_premise(lg, premise) ==
    CASE lg = "ltl"  -> <<"ALWAYS", premise>>
      [] lg = "ctl"  -> <<"FORALL", <<"ALWAYS", premise>>>>
      [] lg = "bool" -> premise

-----------------------------------------------------------------------------
(* Transformer (transform.py).  The object's tables are threaded through   *)
(* the recursive walk as the record [ast, ctx_map, ctx_ap_map].            *)

\* The name of the variable of a new occurrence (transform.py, lines 53-54)
repl_var_name(ctx, arg) ==
    LET arg_str == replace_char(pretty_print(arg), QUOTE)
    IN  <<QUOTE>> \o ctx \o <<"[">> \o arg_str \o <<"]", QUOTE>>

RECURSIVE translate_rec(_, _, _)
\* Mutant of _translate: the occurrence is keyed by the argument as written,
\* not by the translated argument
translate_rec_raw_key(ast, m, r) ==
    LET head == Head1(ast)
        args == Args(ast)
    IN  CASE head \in {"VAR", "LIT"} -> [ast |-> ast, ctx_map |-> m, ctx_ap_map |-> r]
          [] head = "CTX" ->
                LET sub == translate_rec(args[2], m, r)
                    arg == args[2]
                    found == DictGet(DictGet(sub.ctx_map, args[1], <<>>), arg, None)
                    repl_var == IF found = None THEN repl_var_name(args[1], arg) ELSE found
                IN  IF found = None
                    THEN [ast |-> Var(repl_var),
                          ctx_map |-> DictSet(sub.ctx_map, args[1],
                                          DictSet(DictGet(sub.ctx_map, args[1], <<>>),
                                                  arg, repl_var)),
                          ctx_ap_map |-> DictSet(sub.ctx_ap_map, repl_var, <<args[1], arg>>)]
                    ELSE [ast |-> Var(repl_var),
                          ctx_map |-> sub.ctx_map,
                          ctx_ap_map |-> sub.ctx_ap_map]
          [] OTHER ->
                IF Len(args) = 0
                THEN [ast |-> ast, ctx_map |-> m, ctx_ap_map |-> r]
                ELSE IF Len(args) = 1
                THEN LET a == translate_rec(args[1], m, r)
                     IN  [ast |-> <<head, a.ast>>,
                          ctx_map |-> a.ctx_map, ctx_ap_map |-> a.ctx_ap_map]
                ELSE LET a == translate_rec(args[1], m, r)
                         b == translate_rec(args[2], a.ctx_map, a.ctx_ap_map)
                     IN  [ast |-> <<head, a.ast, b.ast>>,
                          ctx_map |-> b.ctx_map, ctx_ap_map |-> b.ctx_ap_map]

\* Transformer._translate: translate formulae by removing contexts
translate_rec(ast, m, r) ==
    LET head == Head1(ast)
        args == Args(ast)
    IN  CASE head \in {"VAR", "LIT"} -> [ast |-> ast, ctx_map |-> m, ctx_ap_map |-> r]
          [] head = "CTX" ->
                LET sub == translate_rec(args[2], m, r)
                    arg == sub.ast
                    found == DictGet(DictGet(sub.ctx_map, args[1], <<>>), arg, None)
                    repl_var == IF found = None THEN repl_var_name(args[1], arg) ELSE found
                IN  IF found = None
                    THEN [ast |-> Var(repl_var),
                          ctx_map |-> DictSet(sub.ctx_map, args[1],
                                          DictSet(DictGet(sub.ctx_map, args[1], <<>>),
                                                  arg, repl_var)),
                          ctx_ap_map |-> DictSet(sub.ctx_ap_map, repl_var, <<args[1], arg>>)]
                    ELSE [ast |-> Var(repl_var),
                          ctx_map |-> sub.ctx_map,
                          ctx_ap_map |-> sub.ctx_ap_map]
          [] OTHER ->
                IF Len(args) = 0
                THEN [ast |-> ast, ctx_map |-> m, ctx_ap_map |-> r]
                ELSE IF Len(args) = 1
                THEN LET a == translate_rec(args[1], m, r)
                     IN  [ast |-> <<head, a.ast>>,
                          ctx_map |-> a.ctx_map, ctx_ap_map |-> a.ctx_ap_map]
                ELSE LET a == translate_rec(args[1], m, r)
                         b == translate_rec(args[2], a.ctx_map, a.ctx_ap_map)
                     IN  [ast |-> <<head, a.ast, b.ast>>,
                          ctx_map |-> b.ctx_map, ctx_ap_map |-> b.ctx_ap_map]

\* itertools.product(range(n), repeat=2), from 1
product2(n) == [k \in 1..(n * n) |-> <<((k - 1) \div n) + 1, ((k - 1) % n) + 1>>]

\* itertools.permutations(items, r=2), as pairs of positions
permutations(n) == SelectSeq(product2(n), LAMBDA ij : ij[1] # ij[2])

\* itertools.combinations(items, r=2), as pairs of positions
combinations(n) == SelectSeq(product2(n), LAMBDA ij : ij[1] < ij[2])

\* Mutant of the selector: ordered pairs in both modes
selector_permutations(mono, n) == permutations(n)

\* Mutant of the selector: unordered pairs in both modes
selector_combinations(mono, n) == combinations(n)

selector(mono, n) == IF mono THEN permutations(n) ELSE combinations(n)

\* Monotonic formula -> implication, any formula -> equivalence
side_operator(mono) == IF mono THEN "IMPLICATION" ELSE "EQUIVALENCE"

\* Mutant of the clause: the whole implication is not wrapped
side_clause_unwrapped(mono, lg, p, q) ==
    LET operator == side_operator(mono)
        premise == wrap_premise(lg, <<operator, p[1], q[1]>>)
        conclusion == <<operator, Var(p[2]), Var(q[2])>>
    IN  <<"IMPLICATION", premise, conclusion>>

\* One clause of the consistency condition (transform.py, lines 81-85)
side_clause(mono, lg, p, q) ==
    LET operator == side_operator(mono)
        premise == wrap_premise(lg, <<operator, p[1], q[1]>>)
        conclusion == <<operator, Var(p[2]), Var(q[2])>>
    IN  wrap_premise(lg, <<"IMPLICATION", premise, conclusion>>)

\* The clauses generated for one context variable, in order
side_clauses_of(mono, lg, items) ==
    LET pairs == selector(mono, Len(items))
    IN  [k \in 1..Len(pairs) |-> side_clause(mono, lg, items[pairs[k][1]], items[pairs[k][2]])]

\* The clauses of all context variables, in the order of the loops
side_clauses(m, mono, lg) ==
    Concat([i \in 1..Len(m) |-> side_clauses_of(mono, lg, m[i][2])])

RECURSIVE conjoin(_, _)
\* formula = clause if formula is None else (Op.CONJUNCTION, formula, clause)
conjoin(formula, clauses) ==
    IF clauses = <<>> THEN formula
    ELSE conjoin(IF formula = None THEN Head(clauses)
                 ELSE <<"CONJUNCTION", formula, Head(clauses)>>, Tail(clauses))

\* Mutant of _make_side: the condition is always the literal true
make_side_no_clauses(m, mono, lg) == Lit(TRUE)

\* Transformer._make_side
make_side(m, mono, lg) ==
    LET formula == conjoin(None, side_clauses(m, mono, lg))
    IN  IF formula # None THEN formula ELSE Lit(TRUE)

\* Transformer.translate
translate(l, r, m0, r0, mono, lg) ==
    LET left_trans == translate_rec(l, m0, r0)
        right_trans == translate_rec(r, left_trans.ctx_map, left_trans.ctx_ap_map)
        cond == make_side(right_trans.ctx_map, mono, lg)
    IN  [gen |-> <<left_trans.ast, right_trans.ast, cond>>,
         ctx_map |-> right_trans.ctx_map,
         ctx_ap_map |-> right_trans.ctx_ap_map]

\* Mutant of the canonical clause: the hole and the argument are exchanged
canonical_clause_swapped(mono, lg, item) ==
    LET operator == side_operator(mono)
        premise == wrap_premise(lg, <<operator, item[1], Hole>>)
    IN  <<"IMPLICATION", premise, Var(item[2])>>

\* One clause of a canonical context (transform.py, lines 116-117)
canonical_clause(mono, lg, item) ==
    LET operator == side_operator(mono)
        premise == wrap_premise(lg, <<operator, Hole, item[1]>>)
    IN  <<"IMPLICATION", premise, Var(item[2])>>

\* Mutant of canonical_context: each clause replaces the formula built so far
canonical_context_last_clause(m, mono, lg) ==
    [i \in 1..Len(m) |->
        <<m[i][1], canonical_clause(mono, lg, m[i][2][Len(m[i][2])])>>]

\* Transformer.canonical_context
canonical_context(m, mono, lg) ==
    [i \in 1..Len(m) |->
        <<m[i][1],
          conjoin(None, [k \in 1..Len(m[i][2]) |-> canonical_clause(mono, lg, m[i][2][k])])>>]

-----------------------------------------------------------------------------
(* Substitution (common.py) *)

\* raise ValueError('instantiate_formula applied to formula with holes')
ValueError == <<"ValueError">>

RECURSIVE OpenHoles(_)
\* Number of Hole nodes reachable from the root without crossing a Context node
OpenHoles(f) ==
    IF f = Hole THEN 1
    ELSE IF Head1(f) \in {"VAR", "LIT", "CTX"} THEN 0
    ELSE IF Len(f) = 2 THEN OpenHoles(f[2])
    ELSE OpenHoles(f[2]) + OpenHoles(f[3])

RECURSIVE instantiate_context(_, _)
\* Mutant of instantiate_context: a context with several holes is refused
instantiate_context_single_hole(context, replacement) ==
    LET head == Head1(context)
        args == Args(context)
    IN  IF OpenHoles(context) > 1 THEN ValueError
        ELSE CASE head = "HOLE" -> replacement
               [] head \in {"VAR", "LIT"} -> context
               [] head = "CTX" -> <<head, args[1], instantiate_context(args[2], replacement)>>
               [] OTHER ->
                     <<head>> \o [i \in 1..Len(args) |-> instantiate_context(args[i], replacement)]

\* Mutant of instantiate_context: the hole is not looked for under a binary operator
instantiate_context_shallow(context, replacement) ==
    LET head == Head1(context)
        args == Args(context)
    IN  CASE head = "HOLE" -> replacement
          [] head \in {"VAR", "LIT"} -> context
          [] head = "CTX" -> <<head, args[1], instantiate_context(args[2], replacement)>>
          [] Len(args) = 2 /\ head # "CONJUNCTION" -> context
          [] OTHER ->
                <<head>> \o [i \in 1..Len(args) |-> instantiate_context(args[i], replacement)]

\* Instantiate the given context with the hole replacement
instantiate_context(context, replacement) ==
    LET head == Head1(context)
        args == Args(context)
    IN  CASE head = "HOLE" -> replacement
          [] head \in {"VAR", "LIT"} -> context
          [] head = "CTX" -> <<head, args[1], instantiate_context(args[2], replacement)>>
          [] OTHER ->
                <<head>> \o [i \in 1..Len(args) |-> instantiate_context(args[i], replacement)]

RECURSIVE instantiate_formula(_, _)
\* Mutant of instantiate_formula: a context with a replacement is left in place
instantiate_formula_raw_arg(formula, replacements) ==
    LET head == Head1(formula)
        args == Args(formula)
    IN  CASE head \in {"VAR", "LIT"} -> formula
          [] head = "CTX" ->
                LET arg == instantiate_formula(args[2], replacements)
                    replacement == DictGet(replacements, args[1], None)
                IN  IF arg = ValueError THEN ValueError
                    ELSE <<head, args[1], arg>>
          [] head = "HOLE" -> ValueError
          [] OTHER ->
                LET sub == [i \in 1..Len(args) |-> instantiate_formula(args[i], replacements)]
                IN  IF \E i \in 1..Len(sub) : sub[i] = ValueError
                    THEN ValueError
                    ELSE <<head>> \o sub

\* Instantiate the contexts of a formula; replacements is a dictionary
instantiate_formula(formula, replacements) ==
    LET head == Head1(formula)
        args == Args(formula)
    IN  CASE head \in {"VAR", "LIT"} -> formula
          [] head = "CTX" ->
                LET arg == instantiate_formula(args[2], replacements)
                    replacement == DictGet(replacements, args[1], None)
                IN  IF arg = ValueError THEN ValueError
                    ELSE IF replacement # None
                    THEN instantiate_context(replacement, arg)
                    ELSE <<head, args[1], arg>>
          [] head = "HOLE" -> ValueError
          [] OTHER ->
                LET sub == [i \in 1..Len(args) |-> instantiate_formula(args[i], replacements)]
                IN  IF \E i \in 1..Len(sub) : sub[i] = ValueError
                    THEN ValueError
                    ELSE <<head>> \o sub

-----------------------------------------------------------------------------
(* Oracle encoders: to_spot (ltl.py), to_pysat (bool.py) and to_ctlsat      *)
(* (ctl.py).  An encoder returns its encoding or the exception it raised;   *)
(* the encoders that fill a var_map return the record [out, var_map].       *)

InvalidFormulaError == <<"InvalidFormulaError">>

KeyError == <<"KeyError">>

TypeError == <<"TypeError">>

IndexError == <<"IndexError">>

RecursionError == <<"RecursionError">>

Errors == {ValueError, InvalidFormulaError, KeyError, TypeError, IndexError, RecursionError}

\* The first exception among the results of the arguments, None without one
FirstError(outs) ==
    IF \E i \in 1..Len(outs) : outs[i] \in Errors
    THEN outs[CHOOSE i \in 1..Len(outs) :
                 outs[i] \in Errors /\ \A j \in 1..(i - 1) : outs[j] \notin Errors]
    ELSE None

\* SPOT_MAP: the Spot constructor of each operator
SPOT_MAP(head) ==
    CASE head = "NEGATION"    -> "formula_Not"
      [] head = "DISJUNCTION" -> "formula_Or"
      [] head = "CONJUNCTION" -> "formula_And"
      [] head = "IMPLICATION" -> "formula_Implies"
      [] head = "EXCLUSION"   -> "formula_Xor"
      [] head = "EQUIVALENCE" -> "formula_Equiv"
      [] head = "NEXT"        -> "formula_X"
      [] head = "EVENTUALLY"  -> "formula_F"
      [] head = "ALWAYS"      -> "formula_G"
      [] head = "UNTIL"       -> "formula_U"
      [] head = "WUNTIL"      -> "formula_W"
      [] head = "RELEASE"     -> "formula_R"
      [] head = "SRELEASE"    -> "formula_M"
      [] OTHER                -> "KeyError"

\* spot.formula(text) on an identifier: the atomic proposition of that name,
\* a name written between double quotes losing them
spot_formula(text) ==
    IF Len(text) >= 2 /\ text[1] = QUOTE /\ text[Len(text)] = QUOTE
    THEN <<"ap", SubSeq(text, 2, Len(text) - 1)>>
    ELSE <<"ap", text>>

RECURSIVE to_spot(_)
\* to_spot: translate a formula (without context) to Spot
to_spot(ast) ==
    LET head == Head1(ast)
        args == Args(ast)
    IN  CASE head = "LIT" -> IF args[1] THEN <<"formula_tt">> ELSE <<"formula_ff">>
          [] head = "VAR" -> spot_formula(args[1])
          [] head = "CTX" -> ValueError
          [] head = "HOLE" -> spot_formula(<<QUOTE, "HOLE_SIGN", QUOTE>>)
          [] OTHER ->
                LET spot_args == [i \in 1..Len(args) |-> to_spot(args[i])]
                IN  IF FirstError(spot_args) # None THEN FirstError(spot_args)
                    ELSE IF SPOT_MAP(head) = "KeyError" THEN KeyError
                    ELSE <<SPOT_MAP(head)>> \o spot_args

\* PYSAT_MAP: the PySAT constructor of each propositional operator
PYSAT_MAP(head) ==
    CASE head = "NEGATION"    -> "Neg"
      [] head = "DISJUNCTION" -> "Or"
      [] head = "CONJUNCTION" -> "And"
      [] head = "IMPLICATION" -> "Implies"
      [] head = "EXCLUSION"   -> "XOr"
      [] head = "EQUIVALENCE" -> "Equals"
      [] OTHER                -> "None"

\* Index of hole as a PySAT variable
_HOLE_INDEX == 1

\* An integer key of a Python dictionary whose other keys are strings
IntKey(k) == <<"int", k>>

\* BoolProblem.__init__: self.var_map
BoolVarMap == <<<<IntKey(0), None>>, <<IntKey(_HOLE_INDEX), <<"HOLE_SIGN">>>>>>

RECURSIVE to_pysat(_, _)
\* to_pysat: translate a formula (without context) to PySAT; the atom of a
\* literal is written <<"Atom", "bool", value>>, the atom of a variable
\* <<"Atom", index>>
to_pysat(ast, vm) ==
    LET head == Head1(ast)
        args == Args(ast)
    IN  CASE head = "LIT" -> [out |-> <<"Atom", "bool", args[1]>>, var_map |-> vm]
          [] head = "VAR" ->
                LET var_id == IF DictHas(vm, args[1]) THEN DictGet(vm, args[1], None)
                              ELSE Len(vm)
                IN  [out |-> <<"Atom", var_id>>,
                     var_map |-> IF DictHas(vm, args[1]) THEN vm
                                 ELSE DictSet(vm, args[1], var_id)]
          [] head = "CTX" -> [out |-> ValueError, var_map |-> vm]
          [] head = "HOLE" -> [out |-> <<"Atom", _HOLE_INDEX>>, var_map |-> vm]
          [] OTHER ->
                IF PYSAT_MAP(head) = "None"
                THEN [out |-> InvalidFormulaError, var_map |-> vm]
                ELSE IF Len(args) = 1
                THEN LET a == to_pysat(args[1], vm)
                     IN  IF a.out \in Errors THEN a
                         ELSE [out |-> <<PYSAT_MAP(head), a.out>>, var_map |-> a.var_map]
                ELSE LET a == to_pysat(args[1], vm)
                         b == to_pysat(args[2], a.var_map)
                     IN  IF a.out \in Errors THEN a
                         ELSE IF b.out \in Errors THEN b
                         ELSE [out |-> <<PYSAT_MAP(head), a.out, b.out>>,
                               var_map |-> b.var_map]

\* ord(ch) for the characters of the CTL-SAT syntax
ord(ch) ==
    CASE ch = " " -> 32  [] ch = "!" -> 33  [] ch = "$" -> 36  [] ch = "(" -> 40
      [] ch = ")" -> 41  [] ch = "-" -> 45  [] ch = ">" -> 62  [] ch = "A" -> 65
      [] ch = "E" -> 69  [] ch = "F" -> 70  [] ch = "G" -> 71  [] ch = "T" -> 84
      [] ch = "U" -> 85  [] ch = "X" -> 88  [] ch = "^" -> 94  [] ch = "v" -> 118
      [] ch = "~" -> 126

\* A bytes literal: the byte values of its characters
bytes(text) == [i \in 1..Len(text) |-> ord(text[i])]

\* ASCII characters reserved by ctl-sat
CTLSAT_RESERVED ==
    {ord(ch) : ch \in {"^", "v", "~", "-", ">", "(", ")", "T", "A", "E", "U", "F", "G", "X", "$"}}

\* Map to construct CTL-SAT formulas; "%" stands for a %b or %s placeholder
CTLSAT_MAP(head) ==
    CASE head = "NEGATION"    -> <<"~", " ", "%">>
      [] head = "DISJUNCTION" -> <<"(", "%", " ", "v", " ", "%", ")">>
      [] head = "CONJUNCTION" -> <<"(", "%", " ", "^", " ", "%", ")">>
      [] head = "IMPLICATION" -> <<"(", "%", " ", "-", ">", " ", "%", ")">>
      [] head = "FORALL"      -> <<"(", "A", " ", "%", ")">>
      [] head = "EXISTS"      -> <<"(", "E", " ", "%", ")">>
      [] head = "NEXT"        -> <<"X", " ", "%">>
      [] head = "EVENTUALLY"  -> <<"F", " ", "%">>
      [] head = "ALWAYS"      -> <<"G", " ", "%">>
      [] head = "UNTIL"       -> <<"(", "%", " ", "U", " ", "%", ")">>
      [] OTHER                -> None

\* ctl_head % ctl_args: byte string formatting
bytes_format(ctl_head, ctl_args) ==
    Concat([i \in 1..Len(ctl_head) |->
               IF ctl_head[i] = "%"
               THEN ctl_args[Cardinality({j \in 1..i : ctl_head[j] = "%"})]
               ELSE <<ord(ctl_head[i])>>])

\* The largest value of a byte
MaxByte == 255

\* CTLProblem.__init__: self.var_map; 34 is ord('!') + 1
CTLVarMap == <<<<None, ord("!") + 1>>>>

RECURSIVE skip_reserved(_)
\* Mutant of the loop that skips the reserved characters: nothing is skipped
skip_reserved_nothing(var_id) == var_id

\* Skip reserved characters (i.e. CTL-SAT operators)
skip_reserved(var_id) ==
    IF var_id \in CTLSAT_RESERVED THEN skip_reserved(var_id + 1) ELSE var_id

\* Mutant of the match statement of to_ctlsat: a hole is refused
ctlsat_match_hole_raises(ast, vm) ==
    LET head == Head1(ast)
        args == Args(ast)
    IN  CASE head = "LIT" ->
                [out |-> <<"bytes", IF args[1] THEN bytes(<<"T">>)
                                    ELSE bytes(<<"(", "~", "T", ")">>)>>, var_map |-> vm]
          [] head = "VAR" ->
                IF DictHas(vm, args[1]) /\ DictGet(vm, args[1], 0) # 0
                THEN [out |-> <<"bytes", <<DictGet(vm, args[1], 0)>>>>, var_map |-> vm]
                ELSE LET var_id == skip_reserved(vm[Len(vm)][2] + 1)
                     IN  IF var_id > MaxByte
                         THEN [out |-> ValueError, var_map |-> vm]
                         ELSE [out |-> <<"bytes", <<var_id>>>>,
                               var_map |-> DictSet(vm, args[1], var_id)]
          [] head = "CTX" -> [out |-> ValueError, var_map |-> vm]
          [] head = "HOLE" -> [out |-> ValueError, var_map |-> vm]
          [] OTHER -> None

\* The match statement of to_ctlsat (ctl.py, lines 38-73): the encoding of a
\* literal, a variable, a context or a hole, None for any other formula
ctlsat_match(ast, vm) ==
    LET head == Head1(ast)
        args == Args(ast)
    IN  CASE head = "LIT" ->
                [out |-> <<"bytes", IF args[1] THEN bytes(<<"T">>)
                                    ELSE bytes(<<"(", "~", "T", ")">>)>>, var_map |-> vm]
          [] head = "VAR" ->
                IF DictHas(vm, args[1]) /\ DictGet(vm, args[1], 0) # 0
                THEN [out |-> <<"bytes", <<DictGet(vm, args[1], 0)>>>>, var_map |-> vm]
                ELSE LET var_id == skip_reserved(vm[Len(vm)][2] + 1)
                     IN  IF var_id > MaxByte
                         THEN [out |-> ValueError, var_map |-> vm]
                         ELSE [out |-> <<"bytes", <<var_id>>>>,
                               var_map |-> DictSet(vm, args[1], var_id)]
          [] head = "CTX" -> [out |-> ValueError, var_map |-> vm]
          [] head = "HOLE" -> [out |-> <<"bytes", bytes(<<"!">>)>>, var_map |-> vm]
          [] OTHER -> None

RECURSIVE to_ctlsat(_, _)
\* to_ctlsat: translate a formula (without context) to ctl-sat
to_ctlsat(ast, vm) ==
    LET head == Head1(ast)
        args == Args(ast)
    IN  IF head \in {"LIT", "VAR", "CTX", "HOLE"} THEN ctlsat_match(ast, vm)
        ELSE LET a == to_ctlsat(args[1], vm)
                 b == IF Len(args) = 1 THEN a ELSE to_ctlsat(args[2], a.var_map)
                 ctl_head == CTLSAT_MAP(head)
             IN  IF a.out \in Errors THEN a
                 ELSE IF b.out \in Errors THEN b
                 ELSE IF ctl_head = None
                 THEN [out |-> InvalidFormulaError, var_map |-> b.var_map]
                 ELSE IF Len(args) = 1
                 THEN [out |-> <<"bytes", bytes_format(ctl_head, <<a.out[2]>>)>>,
                       var_map |-> a.var_map]
                 ELSE [out |-> <<"bytes", bytes_format(ctl_head, <<a.out[2], b.out[2]>>)>>,
                       var_map |-> b.var_map]

-----------------------------------------------------------------------------
(* Formula simplifier (tfsimp.py).  simplify first simplifies the          *)
(* arguments and then applies the case of the head at the top level; each  *)
(* case is an operator here, given the simplified arguments and the        *)
(* formula that simplify received.                                         *)

\* Whether the argument is true
_is_true(formula) == formula[1] = "LIT" /\ formula[2]

\* Whether the argument is false
_is_false(formula) == formula[1] = "LIT" /\ ~formula[2]

\* Add negation to a formula with some checks
_negate(formula) ==
    IF formula[1] = "NEGATION" THEN formula[2] ELSE <<"NEGATION", formula>>

\* Dual of an operator
_dual_operator(operator) ==
    CASE operator = "ALWAYS"     -> "EVENTUALLY"
      [] operator = "EVENTUALLY" -> "ALWAYS"
      [] operator = "FORALL"     -> "EXISTS"
      [] operator = "EXISTS"     -> "FORALL"
      [] OTHER                   -> operator

\* case Op.VAR (tfsimp.py, lines 63-65)
simplify_VAR(args, formula, valuation) ==
    IF DictHas(valuation, args[1]) THEN Lit(DictGet(valuation, args[1], None))
    ELSE formula

\* case Op.NEGATION (lines 67-72)
simplify_NEGATION(args, formula) ==
    IF args[1][1] = "LIT" THEN Lit(~args[1][2])
    ELSE IF args[1][1] = "NEGATION" THEN args[1][2]
    ELSE formula

\* case Op.DISJUNCTION (lines 74-80)
simplify_DISJUNCTION(args, formula) ==
    IF _is_true(args[1]) \/ _is_true(args[2]) THEN Lit(TRUE)
    ELSE IF _is_false(args[1]) THEN args[2]
    ELSE IF _is_false(args[2]) \/ args[1] = args[2] THEN args[1]
    ELSE formula

\* case Op.CONJUNCTION (lines 82-88)
simplify_CONJUNCTION(args, formula) ==
    IF _is_false(args[1]) \/ _is_false(args[2]) THEN Lit(FALSE)
    ELSE IF _is_true(args[1]) THEN args[2]
    ELSE IF _is_true(args[2]) \/ args[1] = args[2] THEN args[1]
    ELSE formula

\* Mutant of the implication case: the negation is always added
simplify_IMPLICATION_plain_negation(args, formula) ==
    IF _is_false(args[1]) \/ _is_true(args[2]) THEN Lit(TRUE)
    ELSE IF _is_true(args[1]) THEN args[2]
    ELSE IF _is_false(args[2]) THEN <<"NEGATION", args[1]>>
    ELSE formula

\* case Op.IMPLICATION (lines 90-96)
simplify_IMPLICATION(args, formula) ==
    IF _is_false(args[1]) \/ _is_true(args[2]) THEN Lit(TRUE)
    ELSE IF _is_true(args[1]) THEN args[2]
    ELSE IF _is_false(args[2]) THEN _negate(args[1])
    ELSE formula

\* case Op.EQUIVALENCE (lines 98-106)
simplify_EQUIVALENCE(args, formula) ==
    IF _is_true(args[1]) THEN args[2]
    ELSE IF _is_true(args[2]) THEN args[1]
    ELSE IF _is_false(args[1]) THEN _negate(args[2])
    ELSE IF _is_false(args[2]) THEN _negate(args[1])
    ELSE formula

\* case Op.EXCLUSION (lines 108-116)
simplify_EXCLUSION(args, formula) ==
    IF _is_true(args[1]) THEN _negate(args[2])
    ELSE IF _is_true(args[2]) THEN _negate(args[1])
    ELSE IF _is_false(args[1]) THEN args[2]
    ELSE IF _is_false(args[2]) THEN args[1]
    ELSE formula

\* case Op.NEXT | Op.ALWAYS | Op.EVENTUALLY | Op.FORALL | Op.EXISTS (lines 118-124)
simplify_unary(head, args) ==
    IF args[1][1] = "LIT" THEN args[1]
    ELSE IF args[1][1] = "NEGATION"
    THEN <<"NEGATION", <<_dual_operator(head), args[1][2]>>>>
    ELSE <<head>> \o args

\* Mutant of the until case: the first argument is looked at first
simplify_UNTIL_left_first(args, formula) ==
    IF _is_false(args[1]) THEN args[2]
    ELSE IF _is_true(args[1]) THEN <<"EVENTUALLY", args[2]>>
    ELSE IF _is_true(args[2]) THEN Lit(TRUE)
    ELSE IF _is_false(args[2]) THEN Lit(FALSE)
    ELSE formula

\* case Op.UNTIL (lines 126-134)
simplify_UNTIL(args, formula) ==
    IF _is_true(args[2]) THEN Lit(TRUE)
    ELSE IF _is_false(args[2]) THEN Lit(FALSE)
    ELSE IF _is_false(args[1]) THEN args[2]
    ELSE IF _is_true(args[1]) THEN <<"EVENTUALLY", args[2]>>
    ELSE formula

\* case Op.WUNTIL (lines 136-142)
simplify_WUNTIL(args, formula) ==
    IF _is_true(args[1]) \/ _is_true(args[2]) THEN Lit(TRUE)
    ELSE IF _is_false(args[2]) THEN <<"ALWAYS", args[1]>>
    ELSE IF _is_false(args[1]) THEN args[2]
    ELSE formula

\* case Op.RELEASE (lines 144-150)
simplify_RELEASE(args, formula) ==
    IF _is_true(args[1]) \/ _is_true(args[2]) THEN Lit(TRUE)
    ELSE IF _is_false(args[1]) THEN <<"ALWAYS", args[2]>>
    ELSE IF _is_false(args[2]) THEN Lit(FALSE)
    ELSE formula

\* case Op.SRELEASE (lines 152-158)
simplify_SRELEASE(args, formula) ==
    IF _is_false(args[1]) \/ _is_false(args[2]) THEN Lit(FALSE)
    ELSE IF _is_true(args[1]) THEN args[2]
    ELSE IF _is_true(args[2]) THEN <<"EVENTUALLY", args[1]>>
    ELSE formula

RECURSIVE simplify(_, _)
\* Simplify a given formula with a valuation.  The case of a context calls
\* simplify on the same formula again and never returns.
simplify(formula, valuation) ==
    LET head == Head1(formula)
        args == IF head \in {"LIT", "VAR", "HOLE"} THEN Args(formula)
                ELSE [i \in 1..(Len(formula) - 1) |-> simplify(formula[i + 1], valuation)]
    IN  IF head = "CTX" THEN RecursionError
        ELSE IF head \in {"LIT", "HOLE"} THEN formula
        ELSE IF head = "VAR" THEN simplify_VAR(args, formula, valuation)
        ELSE IF FirstError(args) # None THEN FirstError(args)
        ELSE CASE head = "NEGATION"    -> simplify_NEGATION(args, formula)
               [] head = "DISJUNCTION" -> simplify_DISJUNCTION(args, formula)
               [] head = "CONJUNCTION" -> simplify_CONJUNCTION(args, formula)
               [] head = "IMPLICATION" -> simplify_IMPLICATION(args, formula)
               [] head = "EQUIVALENCE" -> simplify_EQUIVALENCE(args, formula)
               [] head = "EXCLUSION"   -> simplify_EXCLUSION(args, formula)
               [] head \in {"NEXT", "ALWAYS", "EVENTUALLY", "FORALL", "EXISTS"} ->
                     simplify_unary(head, args)
               [] head = "UNTIL"       -> simplify_UNTIL(args, formula)
               [] head = "WUNTIL"      -> simplify_WUNTIL(args, formula)
               [] head = "RELEASE"     -> simplify_RELEASE(args, formula)
               [] head = "SRELEASE"    -> simplify_SRELEASE(args, formula)
               [] OTHER -> formula

-----------------------------------------------------------------------------
(* Ternary evaluator over lasso traces (tfeval.py).  The Python values     *)
(* True, False and None of a trace are written "True", "False" and "None"; *)
(* a trace is the pair <<prefix, cycle>>, tuples and lists alike.  An      *)
(* operator returns its trace or the exception it raised.                  *)

TraceValues == {"True", "False", "None"}

\* The value of a Python Boolean in a trace
py_bool(b) == IF b THEN "True" ELSE "False"

\* The values of a tuple
Range(seq) == {seq[i] : i \in 1..Len(seq)}

\* (value,) * n
Repeat(value, n) == [i \in 1..n |-> value]

_negation(arg) ==
    IF arg = "None" THEN "None" ELSE IF arg = "True" THEN "False" ELSE "True"

_conjunction(l, r) ==
    IF l = "None" \/ r = "None" THEN "None"
    ELSE IF l = "True" /\ r = "True" THEN "True" ELSE "False"

_disjunction(l, r) ==
    IF l = "True" \/ r = "True" THEN "True"
    ELSE IF l = "None" \/ r = "None" THEN "None" ELSE "False"

_implication(l, r) ==
    IF l = "False" \/ r = "True" THEN "True"
    ELSE IF l = "None" \/ r = "None" THEN "None" ELSE "False"

_equivalence(l, r) ==
    IF l = "None" \/ r = "None" THEN "None" ELSE py_bool(l = r)

_exclusion(l, r) ==
    IF l = "None" \/ r = "None" THEN "None" ELSE py_bool(l # r)

\* Valuation.from_trace: convert a trace to a valuation.  A step is a
\* dictionary, written as a function that gives "None" to an absent key.
from_trace(prefix, cycle) ==
    LET keys(step) == {var \in DOMAIN step : step[var] # "None"}
        all_vars == UNION ({keys(prefix[k]) : k \in 1..Len(prefix)}
                           \cup {keys(cycle[k]) : k \in 1..Len(cycle)})
    IN  [d |-> [var \in all_vars |->
                   <<[k \in 1..Len(prefix) |-> prefix[k][var]],
                     [k \in 1..Len(cycle) |-> cycle[k][var]]>>],
         cycle_len |-> Len(cycle),
         prefix_len |-> Len(prefix)]

\* fn(x, y) for the pointwise function named fn
call_fn(fn, x, y) ==
    CASE fn = "_conjunction" -> _conjunction(x, y)
      [] fn = "_disjunction" -> _disjunction(x, y)
      [] fn = "_implication" -> _implication(x, y)
      [] fn = "_equivalence" -> _equivalence(x, y)
      [] fn = "_exclusion"   -> _exclusion(x, y)

\* zip(a, b) with fn applied to each pair
zip_with(fn, a, b) ==
    [k \in 1..(IF Len(a) < Len(b) THEN Len(a) ELSE Len(b)) |-> call_fn(fn, a[k], b[k])]

\* Evaluate a binary pointwise (Boolean) function combining results
evaluate_binary_raw(a, b, fn) ==
    <<zip_with(fn, a[1], b[1]), zip_with(fn, a[2], b[2])>>

RECURSIVE eventually_loop(_, _, _, _)
\* The loop of lines 149-155, from index k down
eventually_loop(prefix, k, value, new_prefix) ==
    IF k = 0 THEN new_prefix
    ELSE IF prefix[k] = "True" THEN new_prefix
    ELSE LET v == IF prefix[k] = "None" THEN "None" ELSE value
         IN  eventually_loop(prefix, k - 1, v, [new_prefix EXCEPT ![k] = v])

\* Evaluate eventually over a trace.  With an unknown in the cycle the loop
\* of lines 139-143 replaces the list new_prefix by None unless it stops at
\* once, and tuple(None) raises TypeError.
evaluate_eventually(a) ==
    LET prefix == a[1]
        cycle == a[2]
    IN  IF "True" \in Range(cycle)
        THEN <<Repeat("True", Len(prefix)), Repeat("True", Len(cycle))>>
        ELSE IF "None" \in Range(cycle)
        THEN IF Len(prefix) = 0 \/ prefix[Len(prefix)] = "True"
             THEN <<Repeat("True", Len(prefix)), Repeat("None", Len(cycle))>>
             ELSE TypeError
        ELSE <<eventually_loop(prefix, Len(prefix), "False", Repeat("True", Len(prefix))),
               Repeat("False", Len(cycle))>>

RECURSIVE always_loop(_, _, _)
\* The loop of lines 172-176, from index k down
always_loop(prefix, k, new_prefix) ==
    IF k = 0 THEN new_prefix
    ELSE IF prefix[k] = "True"
    THEN always_loop(prefix, k - 1, [new_prefix EXCEPT ![k] = "True"])
    ELSE new_prefix

\* Evaluate always over a trace
evaluate_always(a) ==
    LET prefix == a[1]
        cycle == a[2]
    IN  IF "False" \in Range(cycle)
        THEN <<Repeat("False", Len(prefix)), Repeat("False", Len(cycle))>>
        ELSE IF "None" \in Range(cycle)
        THEN <<Repeat("None", Len(prefix)), Repeat("None", Len(cycle))>>
        ELSE <<always_loop(prefix, Len(prefix), Repeat("False", Len(prefix))),
               Repeat("True", Len(cycle))>>

\* Set true where b holds (lines 189-195); IndexError when b is longer
set_true(new, values) ==
    IF \E k \in 1..Len(values) : values[k] = "True" /\ k > Len(new) THEN IndexError
    ELSE [k \in 1..Len(new) |->
             IF k <= Len(values) /\ values[k] = "True" THEN "True" ELSE new[k]]

RECURSIVE until_cycle_loop(_, _, _, _)
\* One round of the loop of lines 204-211, from index k down; st is the
\* pair <<new_cycle, prev>>
until_cycle_loop(cycle1, cycle2, k, st) ==
    IF k = 0 THEN st
    ELSE LET new_cycle ==
                 IF st[2] = "True" /\ cycle1[k] = "True" THEN [st[1] EXCEPT ![k] = "True"]
                 ELSE IF cycle1[k] = "False" /\ cycle2[k] = "False"
                 THEN [st[1] EXCEPT ![k] = "False"]
                 ELSE st[1]
         IN  until_cycle_loop(cycle1, cycle2, k - 1, <<new_cycle, new_cycle[k]>>)

RECURSIVE until_prefix_loop(_, _, _, _)
\* The loop of lines 217-224, from index k down: it writes into new_cycle
\* and reads prev from it, at the index of the prefix
until_prefix_loop(prefix1, prefix2, k, st) ==
    IF k = 0 THEN st
    ELSE IF st[2] = "True" /\ prefix1[k] = "True"
    THEN IF k > Len(st[1]) THEN IndexError
         ELSE until_prefix_loop(prefix1, prefix2, k - 1,
                                <<[st[1] EXCEPT ![k] = "True"], "True">>)
    ELSE IF prefix1[k] = "False" /\ k > Len(prefix2) THEN IndexError
    ELSE IF prefix1[k] = "False" /\ prefix2[k] = "False"
    THEN IF k > Len(st[1]) THEN IndexError
         ELSE until_prefix_loop(prefix1, prefix2, k - 1,
                                <<[st[1] EXCEPT ![k] = "False"], "False">>)
    ELSE IF k > Len(st[1]) THEN IndexError
    ELSE until_prefix_loop(prefix1, prefix2, k - 1, <<st[1], st[1][k]>>)

\* Evaluate until over two traces
evaluate_until(a, b) ==
    LET prefix1 == a[1]
        cycle1 == a[2]
        prefix2 == b[1]
        cycle2 == b[2]
        new_prefix == set_true(Repeat("None", Len(prefix1)), prefix2)
        new_cycle == set_true(Repeat("None", Len(cycle1)), cycle2)
        round1 == until_cycle_loop(cycle1, cycle2, Len(cycle1), <<new_cycle, new_cycle[1]>>)
        round2 == until_cycle_loop(cycle1, cycle2, Len(cycle1), round1)
        st == IF "True" \in Range(cycle2) THEN round2
              ELSE <<Repeat("False", Len(new_cycle)), "False">>
        final == until_prefix_loop(prefix1, prefix2, Len(prefix1), st)
    IN  IF new_prefix = IndexError \/ new_cycle = IndexError THEN IndexError
        ELSE IF final = IndexError THEN IndexError
        ELSE <<new_prefix, final[1]>>

\* Evaluate the weak until
evaluate_wuntil(a, b) ==
    IF evaluate_until(a, b) \in Errors THEN evaluate_until(a, b)
    ELSE evaluate_binary_raw(evaluate_until(a, b), evaluate_always(a), "_disjunction")

RECURSIVE evaluate(_, _)
\* Valuation.evaluate: evaluate the formula, giving the trace of the result
evaluate(self, formula) ==
    LET head == Head1(formula)
        args == Args(formula)
        arg1 == evaluate(self, args[1])
        arg2 == evaluate(self, args[2])
        and_part == evaluate_binary_raw(arg1, arg2, "_conjunction")
    IN  CASE head = "VAR" ->
                IF args[1] \in DOMAIN self.d THEN self.d[args[1]]
                ELSE <<Repeat("None", self.prefix_len), Repeat("None", self.cycle_len)>>
          [] head = "LIT" ->
                <<Repeat(py_bool(args[1]), self.prefix_len),
                  Repeat(py_bool(args[1]), self.cycle_len)>>
          [] head = "HOLE" -> ValueError
          [] head = "CTX" -> IF args[2] \in DOMAIN self.d THEN self.d[args[2]] ELSE KeyError
          [] head \in {"NEGATION", "NEXT", "ALWAYS", "EVENTUALLY"} ->
                IF arg1 \in Errors THEN arg1
                ELSE (CASE head = "NEGATION" ->
                             <<[k \in 1..Len(arg1[1]) |-> _negation(arg1[1][k])],
                               [k \in 1..Len(arg1[2]) |-> _negation(arg1[2][k])]>>
                        [] head = "NEXT" ->
                             <<SubSeq(arg1[1], 2, Len(arg1[1])) \o SubSeq(arg1[2], 1, 1),
                               SubSeq(arg1[2], 2, Len(arg1[2])) \o SubSeq(arg1[2], 1, 1)>>
                        [] head = "ALWAYS" -> evaluate_always(arg1)
                        [] head = "EVENTUALLY" -> evaluate_eventually(arg1))
          [] head \in {"CONJUNCTION", "DISJUNCTION", "EXCLUSION", "IMPLICATION",
                       "EQUIVALENCE", "UNTIL", "WUNTIL"} ->
                IF arg1 \in Errors THEN arg1
                ELSE IF arg2 \in Errors THEN arg2
                ELSE (CASE head = "CONJUNCTION" -> evaluate_binary_raw(arg1, arg2, "_conjunction")
                        [] head = "DISJUNCTION" -> evaluate_binary_raw(arg1, arg2, "_disjunction")
                        [] head = "EXCLUSION"   -> evaluate_binary_raw(arg1, arg2, "_exclusion")
                        [] head = "IMPLICATION" -> evaluate_binary_raw(arg1, arg2, "_implication")
                        [] head = "EQUIVALENCE" -> evaluate_binary_raw(arg1, arg2, "_equivalence")
                        [] head = "UNTIL"       -> evaluate_until(arg1, arg2)
                        [] head = "WUNTIL"      -> evaluate_wuntil(arg1, arg2))
          [] head \in {"RELEASE", "SRELEASE"} ->
                IF arg2 \in Errors THEN arg2
                ELSE IF arg1 \in Errors THEN arg1
                ELSE IF head = "RELEASE" THEN evaluate_wuntil(arg2, and_part)
                ELSE evaluate_until(arg2, and_part)
          [] OTHER -> ValueError

-----------------------------------------------------------------------------
(* Invariants of a counterexample trace (ltl.py, get_invariants).  A step  *)
(* is a dictionary from atomic propositions to Booleans.                   *)

\* d.pop(k)
DictPop(d, k) == SelectSeq(d, LAMBDA item : item[1] # k)

\* Mutant of the body of the loop: a variable known to conflict is taken again
invariants_step_retaken(st, item) ==
    LET var == item[1]
        value == item[2]
    IN  IF ~DictHas(st.invariants, var)
        THEN [st EXCEPT !.invariants = DictSet(st.invariants, var, value)]
        ELSE IF DictGet(st.invariants, var, value) # value
        THEN [invariants |-> DictPop(st.invariants, var),
              conflicting |-> st.conflicting \cup {var}]
        ELSE st

\* The body of the loop (ltl.py, lines 103-109) for one item of a step
invariants_step(st, item) ==
    LET var == item[1]
        value == item[2]
    IN  IF ~DictHas(st.invariants, var)
        THEN IF var \notin st.conflicting
             THEN [st EXCEPT !.invariants = DictSet(st.invariants, var, value)]
             ELSE st
        ELSE IF DictGet(st.invariants, var, value) # value
        THEN [invariants |-> DictPop(st.invariants, var),
              conflicting |-> st.conflicting \cup {var}]
        ELSE st

RECURSIVE invariants_loop(_, _)
\* The loops of lines 100-101 over the items that remain
invariants_loop(st, items) ==
    IF items = <<>> THEN st
    ELSE invariants_loop(invariants_step(st, Head(items)), Tail(items))

\* Get the invariant atomic proposition values of a trace
get_invariants(trace) ==
    LET prefix == trace[1]
        cycle == trace[2]
    IN  invariants_loop([invariants |-> <<>>, conflicting |-> {}],
                        Concat(prefix \o cycle)).invariants

-----------------------------------------------------------------------------
(* Validity check of CTL formulas (ctl.py, _check_ctl) and the loop of     *)
(* CTLProblem.__init__ that applies it to both sides                       *)

\* Temporal operators
TEMPORAL_OPS == {"NEXT", "EVENTUALLY", "ALWAYS", "UNTIL", "WUNTIL", "RELEASE", "SRELEASE"}

\* Boolean operators
BOOLEAN_OPS == {"DISJUNCTION", "CONJUNCTION", "IMPLICATION", "EXCLUSION", "EQUIVALENCE"}

\* _check_ctl on an argument that is a string, the name of a variable or of
\* a context: the string is unpacked character by character and no case
\* raises; an empty string cannot be unpacked
check_ctl_str(text) == IF Len(text) = 0 THEN ValueError ELSE None

RECURSIVE _check_ctl(_, _)
\* all(_check_ctl(arg, quant) for arg in args) (ctl.py, line 129): the
\* arguments are what follows the head, so the argument of a literal is a
\* Boolean, which cannot be unpacked, and the first argument of a variable
\* or a context is a string; _check_ctl returns None, which is false, so
\* all() stops after the first argument
all_check_ctl(head, args, quant) ==
    IF Len(args) = 0 THEN None
    ELSE IF head = "LIT" THEN TypeError
    ELSE IF head \in {"VAR", "CTX"} THEN check_ctl_str(args[1])
    ELSE _check_ctl(args[1], quant)

\* Check whether a formula is valid CTL: None, or the exception raised
_check_ctl(ast, quant) ==
    LET head == Head1(ast)
        args == Args(ast)
    IN  CASE head \in {"LIT", "VAR"} -> all_check_ctl(head, args, quant)
          [] head = "CTX" ->
                IF quant # 0 THEN InvalidFormulaError
                ELSE IF _check_ctl(args[2], 0) \in Errors THEN _check_ctl(args[2], 0)
                ELSE all_check_ctl(head, args, quant)
          [] head = "NEGATION" ->
                IF quant = 2 THEN InvalidFormulaError
                ELSE all_check_ctl(head, args, IF quant = 1 THEN 2 ELSE quant)
          [] head \in {"FORALL", "EXISTS"} ->
                IF quant # 0 THEN InvalidFormulaError
                ELSE all_check_ctl(head, args, 1)
          [] OTHER ->
                IF head \in (IF quant = 0 THEN TEMPORAL_OPS ELSE BOOLEAN_OPS)
                THEN InvalidFormulaError
                ELSE all_check_ctl(head, args, 0)

\* The loop of CTLProblem.__init__ (ctl.py, lines 215-220): the exception
\* that leaves the constructor, an InvalidFormulaError with the name of the
\* side in its message, or None when both sides pass
check_sides(l, r) ==
    IF _check_ctl(l, 0) = InvalidFormulaError THEN <<"InvalidFormulaError", "left">>
    ELSE IF _check_ctl(l, 0) \in Errors THEN _check_ctl(l, 0)
    ELSE IF _check_ctl(r, 0) = InvalidFormulaError THEN <<"InvalidFormulaError", "right">>
    ELSE IF _check_ctl(r, 0) \in Errors THEN _check_ctl(r, 0)
    ELSE None

-----------------------------------------------------------------------------
(* Simplification of the canonical contexts with the models of a problem   *)
(* (transform.py, simplify_context, and common.py, Problem._simplify).  A   *)
(* value that is None or a dictionary is written None or <<"dict", d>>, and *)
(* a pair of such values <<"tuple", x, y>>.                                *)

\* A dictionary where None is possible too
OptDict(d) == <<"dict", d>>

\* The truth value of a value that is None or a dictionary: a dictionary is
\* true when it is not empty
truthy(value) == value # None /\ Len(value[2]) > 0

\* Transformer.simplify_context: simplify the given context with a valuation
simplify_context(context, valuation) ==
    [i \in 1..Len(context) |-> <<context[i][1], simplify(context[i][2], valuation)>>]

\* Problem._simplify: simplify the canonical instantiation with the models
_simplify(canonical0, lnr_valuation, rnl_valuation) ==
    LET lnr_simplified == IF truthy(lnr_valuation)
                          THEN OptDict(simplify_context(canonical0, lnr_valuation[2]))
                          ELSE None
        rnl_simplified == IF truthy(rnl_valuation)
                          THEN OptDict(simplify_context(canonical0, rnl_valuation[2]))
                          ELSE None
    IN  IF lnr_valuation = None THEN rnl_simplified
        ELSE IF rnl_valuation = None \/ lnr_simplified = rnl_simplified THEN lnr_simplified
        ELSE <<"tuple", lnr_simplified, rnl_simplified>>

-----------------------------------------------------------------------------
(* Adaptation of CTL formulas to CTL-SAT (ctl.py, _adapt_ctl).  The         *)
(* argument prev is the name of the quantifier above or "None"; a tuple     *)
(* built with prev has that string as its head, and a member of Operator    *)
(* put where a formula is expected is written <<"Operator", name>>.         *)

\* A member of Operator in the place of a formula
BareOperator(name) == <<"Operator", name>>

\* head, *args = ast fails when ast is a member of Operator
Unpackable(ast) == Head1(ast) # "Operator"

\* The cases of _adapt_ctl for the operators that CTL-SAT does not support
\* and for the temporal operators (ctl.py, lines 155-199), given the adapted
\* arguments
adapt_operator(head, new_args, prev, negated) ==
    CASE head = "EQUIVALENCE" ->
            <<"CONJUNCTION", <<"IMPLICATION", new_args[1], new_args[2]>>,
                             <<"IMPLICATION", new_args[2], new_args[1]>>>>
      [] head = "EXCLUSION" ->
            <<"DISJUNCTION", <<"CONJUNCTION", new_args[1], <<"NEGATION", new_args[2]>>>>,
                             <<"CONJUNCTION", new_args[2], <<"NEGATION", new_args[1]>>>>>>
      [] head = "RELEASE" ->
            LET arg == <<"UNTIL", <<"NEGATION", new_args[1]>>, <<"NEGATION", new_args[2]>>>>
            IN  <<prev, IF ~negated THEN <<"NEGATION", arg>> ELSE arg>>
      [] head = "WUNTIL" ->
            LET until == <<"UNTIL", new_args[1], new_args[2]>>
                always == <<"ALWAYS", new_args[1]>>
            IN  IF negated
                THEN <<"CONJUNCTION", <<prev, <<"NEGATION", until>>>>,
                                      <<prev, <<"NEGATION", BareOperator("ALWAYS")>>>>>>
                ELSE <<"DISJUNCTION", <<prev, until>>, <<prev, always>>>>
      [] head = "SRELEASE" ->
            LET arg == <<"UNTIL", new_args[2], <<"CONJUNCTION", new_args[2], new_args[1]>>>>
            IN  <<prev, IF negated THEN <<"NEGATION", arg>> ELSE arg>>
      [] head \in TEMPORAL_OPS ->
            LET arg == <<head>> \o new_args
            IN  <<prev, IF negated THEN <<"NEGATION", arg>> ELSE arg>>
      [] OTHER -> <<head>> \o new_args

RECURSIVE _adapt_ctl(_, _, _)
\* Adapt CTL formula to work with CTL-SAT: the adapted formula, or the
\* exception raised
_adapt_ctl(ast, prev, negated) ==
    IF ~Unpackable(ast) THEN TypeError
    ELSE LET head == Head1(ast)
             args == Args(ast)
         IN  CASE head \in {"LIT", "VAR"} -> ast
               [] head = "CTX" ->
                     LET body == _adapt_ctl(args[2], "None", FALSE)
                     IN  IF body \in Errors THEN body ELSE <<head, args[1], body>>
               [] head \in {"FORALL", "EXISTS"} -> _adapt_ctl(args[1], head, FALSE)
               [] head = "NEGATION" /\ prev # "None" -> _adapt_ctl(args[1], prev, TRUE)
               [] OTHER ->
                     LET new_args == [i \in 1..Len(args) |-> _adapt_ctl(args[i], "None", FALSE)]
                     IN  IF FirstError(new_args) # None THEN FirstError(new_args)
                         ELSE adapt_operator(head, new_args, prev, negated)

-----------------------------------------------------------------------------
(* CTLProblem (ctl.py): construction, the calls of the external ctl-sat     *)
(* program and the two methods that use them.  The outcome of a run of      *)
(* ctl-sat is an input of the model; a method returns a record whose        *)
(* field error is None or the exception that left it, and a Python Boolean  *)
(* that may be absent is written "True", "False" or "None".                 *)

\* subprocess.TimeoutExpired
TimeoutExpired == <<"TimeoutExpired">>

\* What a run of ctl-sat can do: exceed the timeout, exit with a status
\* other than 0, print a penultimate line without the word satisfable, print
\* no line break at all, or answer that the formula is or is not satisfable
OracleOutcomes == {"timeout", "nonzero", "unexpected", "no_newline", "sat", "unsat"}

RECURSIVE HasBareOperator(_)
\* Whether a member of Operator stands in the place of a formula in the tree
HasBareOperator(ast) ==
    CASE Head1(ast) = "Operator" -> TRUE
      [] Head1(ast) \in {"LIT", "VAR"} -> FALSE
      [] Head1(ast) = "CTX" -> HasBareOperator(ast[3])
      [] OTHER -> \E i \in 2..Len(ast) : HasBareOperator(ast[i])

\* CTLProblem.__init__ (ctl.py, lines 213-230) with Problem.__init__: the
\* fields of the new problem, or the exception in error
CTLProblem_init(l, r, any_formula) ==
    LET failed(e) == [error |-> e, left |-> l, right |-> r, gen |-> None,
                      ctx_map |-> <<>>, ctx_ap_map |-> <<>>, var_map |-> None]
        al == _adapt_ctl(l, "None", FALSE)
        ar == _adapt_ctl(r, "None", FALSE)
        tr == translate(al, ar, <<>>, <<>>, ~any_formula, "ctl")
        adapted == [i \in 1..3 |-> _adapt_ctl(tr.gen[i], "None", FALSE)]
    IN  IF check_sides(l, r) # None THEN failed(check_sides(l, r))
        ELSE IF al \in Errors THEN failed(al)
        ELSE IF ar \in Errors THEN failed(ar)
        ELSE IF HasBareOperator(al) \/ HasBareOperator(ar) THEN failed(TypeError)
        ELSE IF any_formula /\ FirstError(adapted) # None THEN failed(FirstError(adapted))
        ELSE [error |-> None, left |-> al, right |-> ar,
              gen |-> IF any_formula THEN adapted ELSE tr.gen,
              ctx_map |-> tr.ctx_map, ctx_ap_map |-> tr.ctx_ap_map,
              var_map |-> CTLVarMap]

\* CTLProblem._solve: check with ctl-sat; value is whether the formula is
\* satisfiable
_solve(outcome) ==
    CASE outcome = "timeout"    -> [error |-> TimeoutExpired, value |-> FALSE]
      [] outcome = "nonzero"    -> [error |-> ValueError, value |-> FALSE]
      [] outcome = "no_newline" -> [error |-> IndexError, value |-> FALSE]
      [] outcome = "unexpected" -> [error |-> ValueError, value |-> FALSE]
      [] outcome = "sat"        -> [error |-> None, value |-> TRUE]
      [] outcome = "unsat"      -> [error |-> None, value |-> FALSE]

\* CTLProblem._solve_both: solve both formulae, R-and-not-L first; outcomes
\* are the outcomes of the runs of ctl-sat in the order of the calls
_solve_both(outcomes) ==
    LET rnl == _solve(outcomes[1])
        lnr == _solve(outcomes[2])
    IN  IF rnl.error # None THEN [error |-> rnl.error, equivalent |-> "None"]
        ELSE IF lnr.error # None THEN [error |-> lnr.error, equivalent |-> "None"]
        ELSE [error |-> None, equivalent |-> py_bool(~rnl.value /\ ~lnr.value),
              lnr |-> IF lnr.value THEN <<"no more info">> ELSE None,
              rnl |-> IF rnl.value THEN <<"no more info">> ELSE None]

\* b'(%s) ^ (%s) ^ (~ %s)'
SOLVE_PATTERN ==
    <<"(", "%", ")", " ", "^", " ", "(", "%", ")", " ", "^", " ", "(", "~", " ", "%", ")">>

\* b'%s ^ (~ %s)'
CONTEXT_PATTERN == <<"%", " ", "^", " ", "(", "~", " ", "%", ")">>

\* CTLProblem.solve: solve with the first method
CTLProblem_solve(gen0, vm, outcomes) ==
    LET l == to_ctlsat(gen0[1], vm)
        r == to_ctlsat(gen0[2], l.var_map)
        c == to_ctlsat(gen0[3], r.var_map)
        failed(enc) == [error |-> enc.out, equivalent |-> "None", var_map |-> enc.var_map]
    IN  IF l.out \in Errors THEN failed(l)
        ELSE IF r.out \in Errors THEN failed(r)
        ELSE IF c.out \in Errors THEN failed(c)
        ELSE [var_map |-> c.var_map,
              cnf_lnr |-> bytes_format(SOLVE_PATTERN, <<l.out[2], c.out[2], r.out[2]>>),
              cnf_rnl |-> bytes_format(SOLVE_PATTERN, <<r.out[2], c.out[2], l.out[2]>>)]
             @@ _solve_both(outcomes)

\* CTLProblem.solve_with_context: obtain witnesses and study their
\* satisfaction; holds is the verdict of the second method
CTLProblem_solve_with_context(l0, r0, m, mono, vm, outcomes) ==
    LET canonical0 == canonical_context(m, mono, "ctl")
        left_inst == instantiate_formula(l0, canonical0)
        right_inst == instantiate_formula(r0, canonical0)
        al == IF left_inst \in Errors THEN left_inst
              ELSE _adapt_ctl(left_inst, "None", FALSE)
        ar == IF right_inst \in Errors THEN right_inst
              ELSE _adapt_ctl(right_inst, "None", FALSE)
        sat_left == to_ctlsat(al, vm)
        sat_right == to_ctlsat(ar, sat_left.var_map)
        failed(e, vm1) == [error |-> e, canonical |-> None, holds |-> "None", var_map |-> vm1]
        both == _solve_both(outcomes)
    IN  IF al \in Errors THEN failed(al, vm)
        ELSE IF ar \in Errors THEN failed(ar, vm)
        ELSE IF sat_left.out \in Errors THEN failed(sat_left.out, sat_left.var_map)
        ELSE IF sat_right.out \in Errors THEN failed(sat_right.out, sat_right.var_map)
        ELSE IF both.error # None THEN failed(both.error, sat_right.var_map)
        ELSE [error |-> None, canonical |-> canonical0, holds |-> both.equivalent,
              var_map |-> sat_right.var_map,
              cnf_lnr |-> bytes_format(CONTEXT_PATTERN, <<sat_left.out[2], sat_right.out[2]>>),
              cnf_rnl |-> bytes_format(CONTEXT_PATTERN, <<sat_right.out[2], sat_left.out[2]>>)]

-----------------------------------------------------------------------------
(* Input formulas: what the parser can produce from the identifiers        *)
(* p, "p" and "c[p]" (the last two written between double quotes), the     *)
(* literal true, the contexts c and d, negation and conjunction.           *)

\* Tokens of the ID terminal (parser.py, line 14); a quoted token keeps its quotes
Names == {<<"p">>, <<QUOTE, "p", QUOTE>>, <<QUOTE, "c", "[", "p", "]", QUOTE>>}

CtxNames == {<<"c">>, <<"d">>}

Atoms == {Lit(TRUE)} \cup {Var(n) : n \in Names}

RECURSIVE FormulasOfSize(_)
\* The input formulas with exactly n nodes
FormulasOfSize(n) ==
    IF n < 1 THEN {}
    ELSE IF n = 1 THEN Atoms
    ELSE {<<"NEGATION", f>> : f \in FormulasOfSize(n - 1)}
         \cup {Ctx(c, f) : c \in CtxNames, f \in FormulasOfSize(n - 1)}
         \cup UNION {{<<"CONJUNCTION", a, b>> :
                          a \in FormulasOfSize(i), b \in FormulasOfSize(n - 1 - i)} :
                     i \in 1..(n - 2)}

\* The pairs (left, right) with at most MaxNodes nodes in total
InputPairs ==
    UNION {FormulasOfSize(i) \X UNION {FormulasOfSize(j) : j \in 1..(MaxNodes - i)} :
           i \in 1..(MaxNodes - 1)}

\* The concrete scenario of the specification: the same context applied
\* once in each formula, to p, to q or to a conjunction of them
ScenarioArgs ==
    {Var(<<"p">>), Var(<<"q">>),
     <<"CONJUNCTION", Var(<<"p">>), Var(<<"q">>)>>,
     <<"CONJUNCTION", Var(<<"q">>), Var(<<"p">>)>>}

ScenarioPairs == {<<Ctx(<<"c">>, a), Ctx(<<"c">>, b)>> : a, b \in ScenarioArgs}

-----------------------------------------------------------------------------
(* The life of a Problem: construction, translate, canonical_context and   *)
(* the instantiation of a canonical context with an occurrence's argument  *)

\* Transformer.__init__ has run and the formulas are known
Init ==
    /\ \E lr \in InputPairs \cup ScenarioPairs : left = lr[1] /\ right = lr[2]
    /\ monotonic \in BOOLEAN
    /\ logic \in Logics
    /\ ctx_map = <<>>
    /\ ctx_ap_map = <<>>
    /\ gen = None
    /\ canonical = None
    /\ inst = None
    /\ subst = None
    /\ call = None
    /\ result = None
    /\ var_map = None
    /\ pc = "new"

\* Problem.__init__: self.transformer.translate(left, right)
Translate ==
    /\ pc = "new"
    /\ LET res == translate(left, right, ctx_map, ctx_ap_map, monotonic, logic)
       IN  /\ gen' = res.gen
           /\ ctx_map' = res.ctx_map
           /\ ctx_ap_map' = res.ctx_ap_map
    /\ pc' = "translated"
    /\ UNCHANGED <<left, right, monotonic, logic, canonical, inst, subst>>
    /\ UNCHANGED funcVars

\* self.transformer.canonical_context()
CanonicalContext ==
    /\ pc = "translated"
    /\ canonical' = canonical_context(ctx_map, monotonic, logic)
    /\ pc' = "canonical"
    /\ UNCHANGED <<left, right, monotonic, logic, ctx_map, ctx_ap_map, gen, inst, subst>>
    /\ UNCHANGED funcVars

\* instantiate_context(canonical[c], arg) for an occurrence (arg, prop) of c
InstantiateOccurrence ==
    /\ pc = "canonical"
    /\ \E i \in 1..Len(ctx_map) : \E k \in 1..Len(ctx_map[i][2]) :
          inst' = [ctx |-> i,
                   arg |-> ctx_map[i][2][k][1],
                   prop |-> ctx_map[i][2][k][2],
                   result |-> instantiate_context(DictGet(canonical, ctx_map[i][1], None),
                                                  ctx_map[i][2][k][1])]
    /\ pc' = "instantiated"
    /\ UNCHANGED <<left, right, monotonic, logic, ctx_map, ctx_ap_map, gen, canonical, subst>>
    /\ UNCHANGED funcVars

Next == Translate \/ CanonicalContext \/ InstantiateOccurrence

Spec == Init /\ [][Next]_vars

-----------------------------------------------------------------------------
(* Vocabulary of the properties *)

RECURSIVE HasCtx(_)
\* The formula contains a Context node
HasCtx(f) ==
    \/ Head1(f) = "CTX"
    \/ /\ Head1(f) \notin {"VAR", "LIT", "HOLE"}
       /\ \E i \in 2..Len(f) : HasCtx(f[i])

RECURSIVE CountHoles(_)
\* The number of Hole nodes of the formula
CountHoles(f) ==
    CASE Head1(f) = "HOLE" -> 1
      [] Head1(f) \in {"VAR", "LIT"} -> 0
      [] Head1(f) = "CTX" -> CountHoles(f[3])
      [] Len(f) = 2 -> CountHoles(f[2])
      [] OTHER -> CountHoles(f[2]) + CountHoles(f[3])

RECURSIVE VarNames(_)
\* The names of the Variable nodes of the formula
VarNames(f) ==
    CASE Head1(f) = "VAR" -> {f[2]}
      [] Head1(f) \in {"LIT", "HOLE"} -> {}
      [] Head1(f) = "CTX" -> VarNames(f[3])
      [] OTHER -> UNION {VarNames(f[i]) : i \in 2..Len(f)}

RECURSIVE Preserved(_, _)
\* out is f with every Context node replaced by some Variable and nothing else changed
Preserved(f, out) ==
    CASE Head1(f) \in {"VAR", "LIT", "HOLE"} -> out = f
      [] Head1(f) = "CTX" -> Head1(out) = "VAR" /\ Len(out) = 2
      [] OTHER -> /\ Head1(out) = Head1(f)
                  /\ Len(out) = Len(f)
                  /\ \A i \in 2..Len(f) : Preserved(f[i], out[i])

RECURSIVE SpineClauses(_)
\* The conjuncts of a conjunction built clause by clause from the left
SpineClauses(f) ==
    IF Head1(f) = "CONJUNCTION" THEN Append(SpineClauses(f[2]), f[3]) ELSE <<f>>

\* The clauses of a consistency condition
CondClauses(cond) == IF cond = Lit(TRUE) THEN <<>> ELSE SpineClauses(cond)

\* Wrap of the specification: Always for LTL, ForAll(Always(.)) for CTL, identity otherwise
Wrap(f) ==
    IF logic = "ltl" THEN <<"ALWAYS", f>>
    ELSE IF logic = "ctl" THEN <<"FORALL", <<"ALWAYS", f>>>>
    ELSE f

\* Rel of the specification: Implies in the monotonic mode, Equiv in the general mode
Rel(a, b) == IF monotonic THEN <<"IMPLICATION", a, b>> ELSE <<"EQUIVALENCE", a, b>>

\* The formula under the logic's wrapper
Unwrap(f) ==
    IF logic = "ltl" THEN f[2] ELSE IF logic = "ctl" THEN f[2][2] ELSE f

\* The context variable a clause of the condition is about: that of the first
\* proposition of its conclusion, by the reverse index
ClauseCtx(cl) == DictGet(ctx_ap_map, Unwrap(cl)[3][2][2], None)[1]

\* The occurrences (arg, prop) of the i-th context variable of the table
Occs(i) == ctx_map[i][2]

Translated == pc \in {"translated", "canonical", "instantiated"}

\* The clause the specification gives for the ordered pair (p, q) of occurrences
SpecClause(p, q) ==
    Wrap(<<"IMPLICATION", Wrap(Rel(p[1], q[1])), Rel(Var(p[2]), Var(q[2]))>>)

\* The number of pairs of occurrences the specification counts for n occurrences
SpecPairs(n) == IF monotonic THEN n * (n - 1) ELSE (n * (n - 1)) \div 2

-----------------------------------------------------------------------------
(* Properties of translate *)

\* C1: after translate, two occurrences of the same context variable have the
\* same fresh proposition if and only if their translated arguments are
\* structurally equal.
C1_SamePropIffEqualArgs ==
    Translated =>
        \A i \in 1..Len(ctx_map) : \A k1, k2 \in 1..Len(Occs(i)) :
            (Occs(i)[k1][2] = Occs(i)[k2][2]) <=> (Occs(i)[k1][1] = Occs(i)[k2][1])

\* C2: every fresh proposition name introduced by translate differs from every
\* Variable name written in left or right.
C2_FreshNamesNotUserNames ==
    Translated =>
        \A i \in 1..Len(ctx_map) : \A k \in 1..Len(Occs(i)) :
            Occs(i)[k][2] \notin (VarNames(left) \cup VarNames(right))

\* C3: the three formulas returned by translate and the argument keys of the
\* occurrence table contain no Context node; leaves and other operators are
\* preserved in place; a context-free pair is returned unchanged with both
\* tables empty.
C3_ContextFreeResult ==
    Translated =>
        /\ \A j \in 1..3 : ~HasCtx(gen[j])
        /\ \A i \in 1..Len(ctx_map) : \A k \in 1..Len(Occs(i)) : ~HasCtx(Occs(i)[k][1])
        /\ Preserved(left, gen[1])
        /\ Preserved(right, gen[2])
        /\ (~HasCtx(left) /\ ~HasCtx(right)) =>
               /\ gen[1] = left
               /\ gen[2] = right
               /\ ctx_map = <<>>
               /\ ctx_ap_map = <<>>

\* A nested context has been translated
C3_Witness ==
    /\ pc = "translated"
    /\ Head1(left) = "CTX"
    /\ Head1(left[3]) = "CTX"
    /\ ~HasCtx(right)

\* C4: each context variable with n occurrences contributes n*(n-1) clauses to
\* the condition in the monotonic mode and n*(n-1)/2 in the general mode, and
\* the condition has no other clause.
C4_ClauseCount ==
    Translated =>
        LET cls == CondClauses(gen[3])
        IN  /\ \A i \in 1..Len(ctx_map) :
                  Cardinality({k \in 1..Len(cls) : ClauseCtx(cls[k]) = ctx_map[i][1]})
                      = SpecPairs(Len(Occs(i)))
            /\ \A k \in 1..Len(cls) : DictHas(ctx_map, ClauseCtx(cls[k]))

\* A context variable with three occurrences in the general mode: three clauses
C4_Witness ==
    /\ pc = "translated"
    /\ ~monotonic
    /\ \E i \in 1..Len(ctx_map) : Len(Occs(i)) = 3
    /\ Len(CondClauses(gen[3])) = 3

\* C5: the condition is the conjunction of the clauses
\* Wrap(Implies(Wrap(Rel(arg_p, arg_q)), Rel(Variable(prop_p), Variable(prop_q))))
\* over the pairs of distinct occurrences of the same context variable (ordered
\* pairs in the monotonic mode, unordered otherwise), and Literal(true) when
\* there is no such pair.
C5_ClauseShape ==
    Translated =>
        LET cls == CondClauses(gen[3])
            pairs == UNION {{<<i, k1, k2>> : k1, k2 \in 1..Len(Occs(i))} :
                            i \in 1..Len(ctx_map)}
            chosen == {ik \in pairs : IF monotonic THEN ik[2] # ik[3] ELSE ik[2] < ik[3]}
        IN  /\ {cls[k] : k \in 1..Len(cls)}
                  = {SpecClause(Occs(ik[1])[ik[2]], Occs(ik[1])[ik[3]]) : ik \in chosen}
            /\ Len(cls) = Cardinality(chosen)
            /\ (chosen = {}) => gen[3] = Lit(TRUE)

\* A branching-time condition in the general mode with at least one clause
C5_Witness ==
    /\ pc = "translated"
    /\ logic = "ctl"
    /\ ~monotonic
    /\ \E i \in 1..Len(ctx_map) : Len(Occs(i)) >= 2

\* C6 as stated: in the monotonic mode, when c is applied to exactly the two
\* arguments p and p AND q, the condition consists of the single clause
\* Wrap(Wrap(p AND q -> p) -> (prop[p AND q] -> prop[p])).
ArgP == Var(<<"p">>)
ArgPQ == <<"CONJUNCTION", Var(<<"p">>), Var(<<"q">>)>>

\* c is the only context variable and its arguments are exactly p and p AND q
C6_Scenario ==
    /\ Translated
    /\ monotonic
    /\ Len(ctx_map) = 1
    /\ ctx_map[1][1] = <<"c">>
    /\ Len(Occs(1)) = 2
    /\ {Occs(1)[1][1], Occs(1)[2][1]} = {ArgP, ArgPQ}

\* The clause of the specification for the ordered pair of arguments (a, b)
C6_Clause(a, b) ==
    SpecClause(<<a, DictGet(Occs(1), a, None)>>, <<b, DictGet(Occs(1), b, None)>>)

C6_SingleClause ==
    C6_Scenario => CondClauses(gen[3]) = <<C6_Clause(ArgPQ, ArgP)>>

\* C6, amended: in that scenario the condition consists of exactly two clauses,
\* one for each ordered pair: Wrap(Wrap(p AND q -> p) -> (prop[p AND q] -> prop[p]))
\* and Wrap(Wrap(p -> p AND q) -> (prop[p] -> prop[p AND q])).
C6_BothOrderedClauses ==
    C6_Scenario =>
        LET cls == CondClauses(gen[3])
        IN  /\ Len(cls) = 2
            /\ {cls[1], cls[2]} = {C6_Clause(ArgPQ, ArgP), C6_Clause(ArgP, ArgPQ)}

\* The scenario has been translated for a linear-time problem
C6_Witness == C6_Scenario /\ pc = "translated" /\ logic = "ltl"

-----------------------------------------------------------------------------
(* Properties of canonical_context *)

HasCanonical == pc \in {"canonical", "instantiated"}

\* The clause of the specification for the occurrence (arg, prop)
SpecCanonicalClause(item) ==
    <<"IMPLICATION", Wrap(Rel(Hole, item[1])), Var(item[2])>>

\* C7: the keys of canonical_context() are the context variables of the
\* occurrence table, in order, and the value for c is the conjunction, in
\* insertion order of the occurrences (arg, prop) of c, of the clauses
\* Implies(Wrap(Rel(Hole, arg)), Variable(prop)); for the single occurrence
\* c[p] in the monotonic mode it is Implies(Wrap(Implies(Hole, p)), Variable("c[p]")).
C7_CanonicalShape ==
    HasCanonical =>
        /\ DictKeys(canonical) = DictKeys(ctx_map)
        /\ \A i \in 1..Len(ctx_map) :
              SpineClauses(canonical[i][2])
                  = [k \in 1..Len(Occs(i)) |-> SpecCanonicalClause(Occs(i)[k])]
        /\ (monotonic /\ DictKeys(ctx_map) = <<<<"c">>>> /\ DictKeys(Occs(1)) = <<ArgP>>) =>
              canonical[1][2] =
                  <<"IMPLICATION", Wrap(<<"IMPLICATION", Hole, ArgP>>),
                    Var(<<QUOTE, "c", "[", "p", "]", QUOTE>>)>>

\* Two context variables, one of them with several occurrences
C7_Witness ==
    /\ pc = "canonical"
    /\ Len(ctx_map) = 2
    /\ \E i \in 1..Len(ctx_map) : Len(Occs(i)) >= 2

\* C8 as stated: every formula of canonical_context() contains exactly one Hole node.
C8_ExactlyOneHole ==
    HasCanonical => \A i \in 1..Len(canonical) : CountHoles(canonical[i][2]) = 1

\* C8, amended: the formula of canonical_context() for a context variable
\* contains exactly one Hole node for each occurrence of that variable in the
\* occurrence table, hence exactly one when the variable has a single occurrence.
C8_OneHolePerOccurrence ==
    HasCanonical =>
        /\ Len(canonical) = Len(ctx_map)
        /\ \A i \in 1..Len(canonical) :
              /\ CountHoles(canonical[i][2]) = Len(Occs(i))
              /\ Len(Occs(i)) >= 1

\* A canonical context for a variable with three occurrences
C8_Witness ==
    /\ pc = "canonical"
    /\ \E i \in 1..Len(canonical) : Len(Occs(i)) = 3 /\ CountHoles(canonical[i][2]) = 3

RECURSIVE BoolEval(_, _)
\* The truth value of a propositional formula under a valuation of its variables
BoolEval(f, val) ==
    CASE Head1(f) = "LIT" -> f[2]
      [] Head1(f) = "VAR" -> val[f[2]]
      [] Head1(f) = "NEGATION" -> ~BoolEval(f[2], val)
      [] Head1(f) = "DISJUNCTION" -> BoolEval(f[2], val) \/ BoolEval(f[3], val)
      [] Head1(f) = "CONJUNCTION" -> BoolEval(f[2], val) /\ BoolEval(f[3], val)
      [] Head1(f) = "IMPLICATION" -> BoolEval(f[2], val) => BoolEval(f[3], val)
      [] Head1(f) = "EXCLUSION" -> BoolEval(f[2], val) # BoolEval(f[3], val)
      [] Head1(f) = "EQUIVALENCE" -> BoolEval(f[2], val) = BoolEval(f[3], val)

\* C9: the canonical context of c instantiated with the argument of an
\* occurrence (arg, prop) of c has, at the position of that occurrence, the
\* clause Implies(Wrap(Rel(arg, arg)), Variable(prop)); in propositional logic
\* the instantiated formula implies Variable(prop) under every valuation.
C9_CanonicalSoundness ==
    pc = "instantiated" =>
        LET cls == SpineClauses(inst.result)
            k == CHOOSE k \in 1..Len(Occs(inst.ctx)) : Occs(inst.ctx)[k] = <<inst.arg, inst.prop>>
        IN  /\ Len(cls) = Len(Occs(inst.ctx))
            /\ cls[k] = <<"IMPLICATION", Wrap(Rel(inst.arg, inst.arg)), Var(inst.prop)>>
            /\ CountHoles(inst.result) = 0
            /\ logic = "bool" =>
                  \A val \in [VarNames(inst.result) -> BOOLEAN] :
                      BoolEval(inst.result, val) => val[inst.prop]

\* A propositional canonical context with several clauses has been instantiated
\* with the argument of its second occurrence
C9_Witness ==
    /\ pc = "instantiated"
    /\ logic = "bool"
    /\ Len(Occs(inst.ctx)) >= 2
    /\ Occs(inst.ctx)[2] = <<inst.arg, inst.prop>>

-----------------------------------------------------------------------------
(* Substitution on its own: instantiate_formula on Context(name, f) against *)
(* instantiate_context, for formulas f without holes and replacements r     *)
(* with and without holes                                                   *)

RECURSIVE ReplacementsOfSize(_)
\* The replacement formulas with exactly n nodes; they may contain holes
ReplacementsOfSize(n) ==
    IF n < 1 THEN {}
    ELSE IF n = 1 THEN Atoms \cup {Hole}
    ELSE {<<"NEGATION", f>> : f \in ReplacementsOfSize(n - 1)}
         \cup {Ctx(c, f) : c \in CtxNames, f \in ReplacementsOfSize(n - 1)}
         \cup UNION {{<<"CONJUNCTION", a, b>> :
                          a \in ReplacementsOfSize(i), b \in ReplacementsOfSize(n - 1 - i)} :
                     i \in 1..(n - 2)}

\* The pairs (f, r) with at most MaxSubstNodes nodes in total
SubstPairs ==
    UNION {FormulasOfSize(i) \X UNION {ReplacementsOfSize(j) : j \in 1..(MaxSubstNodes - i)} :
           i \in 1..(MaxSubstNodes - 1)}

InitSubst ==
    /\ \E fr \in SubstPairs : \E name \in CtxNames :
          subst = [name |-> name, f |-> fr[1], r |-> fr[2], lhs |-> None, rhs |-> None]
    /\ left = None
    /\ right = None
    /\ monotonic = TRUE
    /\ logic = "bool"
    /\ ctx_map = <<>>
    /\ ctx_ap_map = <<>>
    /\ gen = None
    /\ canonical = None
    /\ inst = None
    /\ call = None
    /\ result = None
    /\ var_map = None
    /\ pc = "subst_new"

\* instantiate_formula(Context(name, f), {name: r})
InstantiateFormula ==
    /\ pc = "subst_new"
    /\ subst' = [subst EXCEPT
                   !.lhs = instantiate_formula(Ctx(subst.name, subst.f),
                                               <<<<subst.name, subst.r>>>>)]
    /\ pc' = "subst_formula"
    /\ UNCHANGED <<left, right, monotonic, logic, ctx_map, ctx_ap_map, gen, canonical, inst>>
    /\ UNCHANGED funcVars

\* instantiate_context(r, f)
InstantiateContext ==
    /\ pc = "subst_formula"
    /\ subst' = [subst EXCEPT !.rhs = instantiate_context(subst.r, subst.f)]
    /\ pc' = "subst_done"
    /\ UNCHANGED <<left, right, monotonic, logic, ctx_map, ctx_ap_map, gen, canonical, inst>>
    /\ UNCHANGED funcVars

NextSubst == InstantiateFormula \/ InstantiateContext

SpecSubst == InitSubst /\ [][NextSubst]_vars

\* C10: for every formula f without holes and every replacement r without
\* holes, instantiate_formula(Context(name, f), {name: r}) equals
\* instantiate_context(r, f).
C10_SubstitutionSoundness ==
    (pc = "subst_done" /\ CountHoles(subst.f) = 0 /\ CountHoles(subst.r) = 0) =>
        /\ subst.lhs # ValueError
        /\ subst.lhs = subst.rhs

\* Both sides computed for an f that itself applies the context being replaced
\* and a replacement without holes that is not a leaf
C10_Witness ==
    /\ pc = "subst_done"
    /\ CountHoles(subst.r) = 0
    /\ Head1(subst.r) = "CONJUNCTION"
    /\ Head1(subst.f) = "CTX"
    /\ subst.f[2] = subst.name

RECURSIVE HolesReplaced(_, _, _)
\* res is context with each of its Hole nodes replaced by replacement
HolesReplaced(context, replacement, res) ==
    IF context = Hole THEN res = replacement
    ELSE IF Head1(context) \in {"VAR", "LIT"} THEN res = context
    ELSE /\ Len(res) = Len(context)
         /\ res[1] = context[1]
         /\ IF Head1(context) = "CTX"
            THEN res[2] = context[2] /\ HolesReplaced(context[3], replacement, res[3])
            ELSE \A i \in 2..Len(context) : HolesReplaced(context[i], replacement, res[i])

\* C11 as stated: instantiate_context(context, replacement) fails with an
\* error, returning no formula, whenever context has more than one Hole
\* reachable from the root without crossing a Context node, and with exactly
\* one such Hole it returns context with that Hole replaced.
C11_FailsOnSeveralHoles ==
    pc = "subst_done" =>
        /\ OpenHoles(subst.r) > 1 => subst.rhs = ValueError
        /\ OpenHoles(subst.r) = 1 =>
               subst.rhs # ValueError /\ HolesReplaced(subst.r, subst.f, subst.rhs)

\* C11 amended: instantiate_context(context, replacement) never fails; it
\* returns context with every Hole replaced by replacement, however many
\* Holes context has, so with exactly one Hole it returns context with that
\* Hole replaced.
C11_ReplacesEveryHole ==
    pc = "subst_done" =>
        /\ subst.rhs # ValueError
        /\ HolesReplaced(subst.r, subst.f, subst.rhs)
        /\ CountHoles(subst.rhs) = 0

\* A context with two holes under one conjunction has been instantiated
C11_Witness ==
    /\ pc = "subst_done"
    /\ OpenHoles(subst.r) = 2
    /\ Head1(subst.r) = "CONJUNCTION"
    /\ subst.rhs = <<"CONJUNCTION", subst.f, subst.f>>

-----------------------------------------------------------------------------
(* Holes in context elimination and in the oracle encoders: a Transformer   *)
(* translates formulas that may contain holes and the encoder of the logic  *)
(* is applied to one of the translated formulas                             *)

MaxEncNodes == 4

\* The pairs (left, right), holes allowed, with at most MaxEncNodes nodes in total
HolePairs ==
    UNION {ReplacementsOfSize(i) \X UNION {ReplacementsOfSize(j) : j \in 1..(MaxEncNodes - i)} :
           i \in 1..(MaxEncNodes - 1)}

InitEnc ==
    /\ \E lr \in HolePairs : left = lr[1] /\ right = lr[2]
    /\ monotonic \in BOOLEAN
    /\ logic \in Logics
    /\ ctx_map = <<>>
    /\ ctx_ap_map = <<>>
    /\ gen = None
    /\ canonical = None
    /\ inst = None
    /\ subst = None
    /\ call = None
    /\ result = None
    /\ var_map = CASE logic = "bool" -> BoolVarMap
                   [] logic = "ctl" -> CTLVarMap
                   [] OTHER -> None
    /\ pc = "new"

\* to_spot(self.gen_left) or to_spot(self.gen_right)
ToSpot ==
    /\ pc = "translated"
    /\ logic = "ltl"
    /\ \E i \in 1..2 :
          /\ call' = gen[i]
          /\ result' = to_spot(gen[i])
    /\ pc' = "encoded"
    /\ UNCHANGED <<problemVars, var_map>>

\* to_pysat(self.gen_left, self.var_map) or to_pysat(self.gen_right, self.var_map)
ToPysat ==
    /\ pc = "translated"
    /\ logic = "bool"
    /\ \E i \in 1..2 :
          /\ call' = gen[i]
          /\ result' = to_pysat(gen[i], var_map).out
          /\ var_map' = to_pysat(gen[i], var_map).var_map
    /\ pc' = "encoded"
    /\ UNCHANGED problemVars

\* to_ctlsat(self.gen_left, var_map) or to_ctlsat(self.gen_right, var_map)
ToCtlsat ==
    /\ pc = "translated"
    /\ logic = "ctl"
    /\ \E i \in 1..2 :
          /\ call' = gen[i]
          /\ result' = to_ctlsat(gen[i], var_map).out
          /\ var_map' = to_ctlsat(gen[i], var_map).var_map
    /\ pc' = "encoded"
    /\ UNCHANGED problemVars

NextEnc == Translate \/ ToSpot \/ ToPysat \/ ToCtlsat

SpecEnc == InitEnc /\ [][NextEnc]_vars

RECURSIVE CountLeaf(_, _)
\* The number of occurrences of the leaf in an encoding built as a tree
CountLeaf(enc, leaf) ==
    IF enc = leaf THEN 1
    ELSE IF enc[1] \in {"ap", "Atom", "formula_tt", "formula_ff"} THEN 0
    ELSE IF Len(enc) = 2 THEN CountLeaf(enc[2], leaf)
    ELSE CountLeaf(enc[2], leaf) + CountLeaf(enc[3], leaf)

\* The number of hole atoms of an encoding
EncodedHoles(lg, enc) ==
    CASE lg = "ltl"  -> CountLeaf(enc, <<"ap", <<"HOLE_SIGN">>>>)
      [] lg = "bool" -> CountLeaf(enc, <<"Atom", _HOLE_INDEX>>)
      [] lg = "ctl"  -> Cardinality({i \in 1..Len(enc[2]) : enc[2][i] = ord("!")})

-----------------------------------------------------------------------------
(* The simplifier on its own: simplify(formula, valuation) for formulas    *)
(* without contexts over the literals, the variable p and the hole, and    *)
(* the valuations that leave p free or bind it                             *)

MaxSimpNodes == 4

UnaryOperators == {"NEGATION", "NEXT", "ALWAYS", "EVENTUALLY", "FORALL", "EXISTS"}

BinaryOperators == {"DISJUNCTION", "CONJUNCTION", "IMPLICATION", "EXCLUSION", "EQUIVALENCE",
                    "UNTIL", "WUNTIL", "RELEASE", "SRELEASE"}

RECURSIVE SimpFormulasOfSize(_)
\* The formulas with exactly n nodes given to the simplifier
SimpFormulasOfSize(n) ==
    IF n < 1 THEN {}
    ELSE IF n = 1 THEN {Lit(TRUE), Lit(FALSE), Var(<<"p">>), Hole}
    ELSE {<<op, f>> : op \in UnaryOperators, f \in SimpFormulasOfSize(n - 1)}
         \cup UNION {{<<op, a, b>> : op \in BinaryOperators,
                          a \in SimpFormulasOfSize(i), b \in SimpFormulasOfSize(n - 1 - i)} :
                     i \in 1..(n - 2)}

SimpFormulas == UNION {SimpFormulasOfSize(n) : n \in 1..MaxSimpNodes}

\* The valuations: a Python dictionary from names to Booleans
SimpValuations == {<<>>, <<<<<<"p">>, TRUE>>>>, <<<<<<"p">>, FALSE>>>>}

InitSimp ==
    /\ \E f \in SimpFormulas : \E v \in SimpValuations :
          call = [formula |-> f, valuation |-> v]
    /\ result = None
    /\ var_map = None
    /\ left = None
    /\ right = None
    /\ monotonic = TRUE
    /\ logic = "ltl"
    /\ ctx_map = <<>>
    /\ ctx_ap_map = <<>>
    /\ gen = None
    /\ canonical = None
    /\ inst = None
    /\ subst = None
    /\ pc = "simp_new"

\* simplify(formula, valuation)
Simplify ==
    /\ pc = "simp_new"
    /\ result' = simplify(call.formula, call.valuation)
    /\ pc' = "simp_done"
    /\ UNCHANGED <<problemVars, call, var_map>>

NextSimp == Simplify

SpecSimp == InitSimp /\ [][NextSimp]_vars

\* The simplified children of the formula given to simplify
SimpA == simplify(call.formula[2], call.valuation)

SimpB == simplify(call.formula[3], call.valuation)

\* The rule the temporal and quantifier table gives for a node with simplified
\* children a and b (b unused at a unary node), None when it lists none
TemporalRule(head, a, b) ==
    CASE head = "UNTIL" ->
            IF b = Lit(TRUE) THEN Lit(TRUE)
            ELSE IF b = Lit(FALSE) THEN Lit(FALSE)
            ELSE IF a = Lit(FALSE) THEN b
            ELSE IF a = Lit(TRUE) THEN <<"EVENTUALLY", b>>
            ELSE None
      [] head = "WUNTIL" ->
            IF a = Lit(TRUE) \/ b = Lit(TRUE) THEN Lit(TRUE)
            ELSE IF b = Lit(FALSE) THEN <<"ALWAYS", a>>
            ELSE IF a = Lit(FALSE) THEN b
            ELSE None
      [] head = "RELEASE" ->
            IF a = Lit(TRUE) \/ b = Lit(TRUE) THEN Lit(TRUE)
            ELSE IF a = Lit(FALSE) THEN <<"ALWAYS", b>>
            ELSE IF b = Lit(FALSE) THEN Lit(FALSE)
            ELSE None
      [] head = "SRELEASE" ->
            IF a = Lit(FALSE) \/ b = Lit(FALSE) THEN Lit(FALSE)
            ELSE IF a = Lit(TRUE) THEN b
            ELSE IF b = Lit(TRUE) THEN <<"EVENTUALLY", a>>
            ELSE None
      [] head \in {"NEXT", "ALWAYS", "EVENTUALLY", "FORALL", "EXISTS"} ->
            IF a \in {Lit(TRUE), Lit(FALSE)} THEN a
            ELSE IF a[1] = "NEGATION"
            THEN <<"NEGATION",
                   <<CASE head = "ALWAYS" -> "EVENTUALLY"
                       [] head = "EVENTUALLY" -> "ALWAYS"
                       [] head = "FORALL" -> "EXISTS"
                       [] head = "EXISTS" -> "FORALL"
                       [] head = "NEXT" -> "NEXT", a[2]>>>>
            ELSE None
      [] OTHER -> None

\* C13: at a temporal or quantifier node whose simplified children are a and
\* b, simplify returns what the first applicable rule of the table gives:
\* Until: b true -> true, b false -> false, a false -> b, a true ->
\* Eventually(b); WeakUntil: a or b true -> true, b false -> Always(a),
\* a false -> b; Release: a or b true -> true, a false -> Always(b), b false
\* -> false; StrongRelease: a or b false -> false, a true -> b, b true ->
\* Eventually(a); unary nodes: a literal child is returned, a child Not(x)
\* gives Not(Dual(x)).
C13_TemporalRules ==
    (pc = "simp_done" /\ Head1(call.formula) \in
         {"UNTIL", "WUNTIL", "RELEASE", "SRELEASE",
          "NEXT", "ALWAYS", "EVENTUALLY", "FORALL", "EXISTS"}) =>
        LET head == Head1(call.formula)
            rule == TemporalRule(head, SimpA, IF Len(call.formula) = 3 THEN SimpB ELSE None)
        IN  rule # None => result = rule

\* An until whose first argument simplifies to true and whose second
\* simplifies to false, where two rules of the table compete
C13_Witness ==
    /\ pc = "simp_done"
    /\ Head1(call.formula) = "UNTIL"
    /\ call.formula[2] = Var(<<"p">>)
    /\ SimpA = Lit(TRUE)
    /\ SimpB = Lit(FALSE)
    /\ result = Lit(FALSE)

\* res is x or a negation of x, one negation sign apart
NegationOf(res, x) == res = <<"NEGATION", x>> \/ x = <<"NEGATION", res>>

\* The rule the Boolean table gives, with not_a what it gives for an
\* implication whose conclusion is false; TRUE when it lists no rule
BooleanRule(head, a, b, res, not_a) ==
    CASE head = "NEGATION" ->
            IF a \in {Lit(TRUE), Lit(FALSE)} THEN res = Lit(~a[2])
            ELSE IF a[1] = "NEGATION" THEN res = a[2]
            ELSE TRUE
      [] head = "DISJUNCTION" ->
            IF a = Lit(TRUE) \/ b = Lit(TRUE) THEN res = Lit(TRUE)
            ELSE IF a = Lit(FALSE) THEN res = b
            ELSE IF b = Lit(FALSE) \/ a = b THEN res = a
            ELSE TRUE
      [] head = "CONJUNCTION" ->
            IF a = Lit(FALSE) \/ b = Lit(FALSE) THEN res = Lit(FALSE)
            ELSE IF a = Lit(TRUE) THEN res = b
            ELSE IF b = Lit(TRUE) \/ a = b THEN res = a
            ELSE TRUE
      [] head = "IMPLICATION" ->
            IF a = Lit(FALSE) \/ b = Lit(TRUE) THEN res = Lit(TRUE)
            ELSE IF a = Lit(TRUE) THEN res = b
            ELSE IF b = Lit(FALSE) THEN res = not_a
            ELSE TRUE
      [] head = "EQUIVALENCE" ->
            IF a = Lit(TRUE) THEN res = b
            ELSE IF b = Lit(TRUE) THEN res = a
            ELSE IF a = Lit(FALSE) THEN NegationOf(res, b)
            ELSE IF b = Lit(FALSE) THEN NegationOf(res, a)
            ELSE TRUE
      [] head = "EXCLUSION" ->
            IF a = Lit(TRUE) THEN NegationOf(res, b)
            ELSE IF b = Lit(TRUE) THEN NegationOf(res, a)
            ELSE IF a = Lit(FALSE) THEN res = b
            ELSE IF b = Lit(FALSE) THEN res = a
            ELSE TRUE
      [] OTHER -> TRUE

\* The two particular cases: a literal under the empty valuation is
\* returned, and And(Literal(true), x) simplifies to what x simplifies to
LiteralCases ==
    (pc = "simp_done" /\ call.valuation = <<>>) =>
        /\ Head1(call.formula) = "LIT" => result = call.formula
        /\ (Head1(call.formula) = "CONJUNCTION" /\ call.formula[2] = Lit(TRUE)) =>
               result = simplify(call.formula[3], <<>>)

\* C14 as stated: at a Boolean node whose simplified children are a and b,
\* simplify applies Not(Literal(v)) -> Literal(not v), Not(Not(x)) -> x; Or:
\* any child true -> true, a false -> b, b false or a = b -> a; And: any
\* child false -> false, a true -> b, b true or a = b -> a; Implies: a false
\* or b true -> true, a true -> b, b false -> Not(a); Equiv and Xor by their
\* truth tables; and the two particular cases hold.
C14_BooleanRules ==
    /\ pc = "simp_done" =>
          BooleanRule(Head1(call.formula), SimpA,
                      IF Len(call.formula) = 3 THEN SimpB ELSE None,
                      result, <<"NEGATION", SimpA>>)
    /\ LiteralCases

\* C14 amended: the same table, except that an implication whose conclusion
\* is false gives the negation of a with a double negation removed: x when
\* a is Not(x), and Not(a) otherwise.
C14_BooleanRulesNegate ==
    /\ pc = "simp_done" =>
          BooleanRule(Head1(call.formula), SimpA,
                      IF Len(call.formula) = 3 THEN SimpB ELSE None,
                      result,
                      IF SimpA[1] = "NEGATION" THEN SimpA[2] ELSE <<"NEGATION", SimpA>>)
    /\ LiteralCases

\* An implication from a negation to a conclusion that the valuation makes false
C14_Witness ==
    /\ pc = "simp_done"
    /\ call.formula = <<"IMPLICATION", <<"NEGATION", Hole>>, Var(<<"p">>)>>
    /\ SimpB = Lit(FALSE)
    /\ result = Hole

-----------------------------------------------------------------------------
(* The evaluator on its own: a valuation built by from_trace from a lasso  *)
(* over the propositions p and q, each true, false or absent at each step, *)
(* and a formula without contexts and holes evaluated on it                *)

MaxTraceLen == 3

EvalProps == {<<"p">>, <<"q">>}

\* The steps of a trace: dictionaries from propositions to Booleans
EvalSteps == [EvalProps -> TraceValues]

\* The tuples of n steps
StepsOfLen(n) == [1..n -> EvalSteps]

\* The lassos (prefix, cycle) with a cycle that is not empty and at most
\* MaxTraceLen steps in total, where some proposition is assigned somewhere
EvalTraces ==
    {tr \in UNION {StepsOfLen(n) \X StepsOfLen(m) :
                      n \in 0..(MaxTraceLen - 1), m \in 1..MaxTraceLen} :
        /\ Len(tr[1]) + Len(tr[2]) <= MaxTraceLen
        /\ DOMAIN from_trace(tr[1], tr[2]).d # {}}

EvalUnary == {"NEGATION", "NEXT", "ALWAYS", "EVENTUALLY"}

EvalBinary == {"CONJUNCTION", "DISJUNCTION", "EXCLUSION", "IMPLICATION", "EQUIVALENCE",
               "UNTIL", "WUNTIL", "RELEASE", "SRELEASE"}

\* The formulas evaluated: a proposition, a literal, and each operator
\* applied to the propositions
EvalFormulas ==
    {Var(<<"p">>), Var(<<"q">>), Lit(TRUE)}
        \cup {<<op, Var(<<"p">>)>> : op \in EvalUnary}
        \cup {<<op, Var(<<"p">>), Var(<<"q">>)>> : op \in EvalBinary}

InitEval ==
    /\ \E tr \in EvalTraces : \E f \in EvalFormulas :
          call = [formula |-> f, valuation |-> from_trace(tr[1], tr[2])]
    /\ result = None
    /\ var_map = None
    /\ left = None
    /\ right = None
    /\ monotonic = TRUE
    /\ logic = "ltl"
    /\ ctx_map = <<>>
    /\ ctx_ap_map = <<>>
    /\ gen = None
    /\ canonical = None
    /\ inst = None
    /\ subst = None
    /\ pc = "eval_new"

\* valuation.evaluate(formula)
Evaluate ==
    /\ pc = "eval_new"
    /\ result' = evaluate(call.valuation, call.formula)
    /\ pc' = "eval_done"
    /\ UNCHANGED <<problemVars, call, var_map>>

NextEval == Evaluate

SpecEval == InitEval /\ [][NextEval]_vars

\* The trace of an argument of the formula evaluated
EvalArg(i) == evaluate(call.valuation, call.formula[i + 1])

\* The connectives of Kleene's strong three-valued logic
KleeneNot(a) == IF a = "True" THEN "False" ELSE IF a = "False" THEN "True" ELSE "None"

KleeneOr(a, b) ==
    IF a = "True" \/ b = "True" THEN "True"
    ELSE IF a = "False" /\ b = "False" THEN "False" ELSE "None"

KleeneAnd(a, b) == KleeneNot(KleeneOr(KleeneNot(a), KleeneNot(b)))

Kleene(head, a, b) ==
    CASE head = "CONJUNCTION" -> KleeneAnd(a, b)
      [] head = "DISJUNCTION" -> KleeneOr(a, b)
      [] head = "IMPLICATION" -> KleeneOr(KleeneNot(a), b)

\* C15: the ternary connectives follow Kleene's logic at every position:
\* And(false, unknown) = And(unknown, false) = false, And(true, unknown) =
\* unknown, Or(true, unknown) = Or(unknown, true) = true, Or(false, unknown)
\* = unknown and Implies(a, b) = Or(Not(a), b) for the nine combinations.
C15_KleeneConnectives ==
    (pc = "eval_done" /\ Head1(call.formula) \in {"CONJUNCTION", "DISJUNCTION", "IMPLICATION"}) =>
        /\ result \notin Errors
        /\ \A s \in 1..2 : \A k \in 1..Len(result[s]) :
              result[s][k] = Kleene(Head1(call.formula), EvalArg(1)[s][k], EvalArg(2)[s][k])

\* Every proposition is assigned at every position of the lasso
Definite(val) ==
    /\ DOMAIN val.d = EvalProps
    /\ \A var \in EvalProps : \A s \in 1..2 : "None" \notin Range(val.d[var][s])

RECURSIVE Position(_, _, _)
\* The position reached from position i after n steps of the lasso
Position(val, i, n) ==
    IF n = 0 THEN i
    ELSE Position(val, IF i < val.prefix_len + val.cycle_len THEN i + 1
                       ELSE val.prefix_len + 1, n - 1)

RECURSIVE Holds(_, _, _)
\* The classical two-valued LTL value of f at position i of a definite lasso
Holds(val, f, i) ==
    LET head == Head1(f)
        len == val.prefix_len + val.cycle_len
        at(g, n) == Holds(val, g, Position(val, i, n))
        Until(a, b) == \E n \in 0..len : at(b, n) /\ \A m \in 0..(n - 1) : at(a, m)
        Always(a) == \A n \in 0..len : at(a, n)
    IN  CASE head = "VAR" ->
                IF i <= val.prefix_len THEN val.d[f[2]][1][i] = "True"
                ELSE val.d[f[2]][2][i - val.prefix_len] = "True"
          [] head = "LIT" -> f[2]
          [] head = "NEGATION" -> ~at(f[2], 0)
          [] head = "CONJUNCTION" -> at(f[2], 0) /\ at(f[3], 0)
          [] head = "DISJUNCTION" -> at(f[2], 0) \/ at(f[3], 0)
          [] head = "IMPLICATION" -> at(f[2], 0) => at(f[3], 0)
          [] head = "EXCLUSION" -> at(f[2], 0) # at(f[3], 0)
          [] head = "EQUIVALENCE" -> at(f[2], 0) = at(f[3], 0)
          [] head = "NEXT" -> at(f[2], 1)
          [] head = "ALWAYS" -> Always(f[2])
          [] head = "EVENTUALLY" -> \E n \in 0..len : at(f[2], n)
          [] head = "UNTIL" -> Until(f[2], f[3])
          [] head = "WUNTIL" -> Until(f[2], f[3]) \/ Always(f[2])
          [] head = "RELEASE" ->
                Until(f[3], <<"CONJUNCTION", f[2], f[3]>>) \/ Always(f[3])
          [] head = "SRELEASE" -> Until(f[3], <<"CONJUNCTION", f[2], f[3]>>)

\* C16: on a lasso where every proposition is definite at every position,
\* evaluate gives at each prefix and cycle position the classical two-valued
\* LTL value of the formula, never unknown.
C16_ClassicalOnDefinite ==
    (pc = "eval_done" /\ Definite(call.valuation)) =>
        LET val == call.valuation
        IN  /\ result \notin Errors
            /\ \A k \in 1..val.prefix_len :
                  /\ k <= Len(result[1])
                  /\ result[1][k] = py_bool(Holds(val, call.formula, k))
            /\ \A k \in 1..val.cycle_len :
                  /\ k <= Len(result[2])
                  /\ result[2][k] = py_bool(Holds(val, call.formula, val.prefix_len + k))

\* C17: for every valuation built by from_trace and every formula, evaluate
\* returns a trace with exactly P prefix entries and C cycle entries, each
\* true, false or unknown; no operator changes the lengths or fails.
C17_LengthsPreserved ==
    pc = "eval_done" =>
        /\ result \notin Errors
        /\ Len(result[1]) = call.valuation.prefix_len
        /\ Len(result[2]) = call.valuation.cycle_len
        /\ Range(result[1]) \cup Range(result[2]) \subseteq TraceValues

-----------------------------------------------------------------------------
(* get_invariants on its own, on the traces over the propositions p and q  *)

MaxInvLen == 3

\* The steps: each proposition is true, false or not assigned
InvSteps ==
    {Concat(<<pp, qq>>) :
        pp \in {<<>>, <<<<<<"p">>, TRUE>>>>, <<<<<<"p">>, FALSE>>>>},
        qq \in {<<>>, <<<<<<"q">>, TRUE>>>>, <<<<<<"q">>, FALSE>>>>}}

\* The traces (prefix, cycle) with a cycle that is not empty and at most
\* MaxInvLen steps in total
InvTraces ==
    {tr \in UNION {[1..n -> InvSteps] \X [1..m -> InvSteps] :
                      n \in 0..(MaxInvLen - 1), m \in 1..MaxInvLen} :
        Len(tr[1]) + Len(tr[2]) <= MaxInvLen}

InitInv ==
    /\ call \in InvTraces
    /\ result = None
    /\ var_map = None
    /\ left = None
    /\ right = None
    /\ monotonic = TRUE
    /\ logic = "ltl"
    /\ ctx_map = <<>>
    /\ ctx_ap_map = <<>>
    /\ gen = None
    /\ canonical = None
    /\ inst = None
    /\ subst = None
    /\ pc = "inv_new"

\* get_invariants(trace)
GetInvariants ==
    /\ pc = "inv_new"
    /\ result' = get_invariants(call)
    /\ pc' = "inv_done"
    /\ UNCHANGED <<problemVars, call, var_map>>

NextInv == GetInvariants

SpecInv == InitInv /\ [][NextInv]_vars

\* The values that the steps of the trace assign to the proposition
AssignedValues(trace, x) ==
    {DictGet(step, x, FALSE) : step \in {st \in Range(trace[1] \o trace[2]) : DictHas(st, x)}}

\* C18: get_invariants maps a proposition x to v exactly when x is assigned
\* in at least one step of prefix + cycle and every step that assigns x
\* assigns v; a proposition true at one position and false at another is
\* absent from the result, whatever the order and the number of changes.
C18_InvariantsExact ==
    pc = "inv_done" =>
        \A x \in {<<"p">>, <<"q">>} :
            /\ DictHas(result, x) <=> Cardinality(AssignedValues(call, x)) = 1
            /\ DictHas(result, x) => AssignedValues(call, x) = {DictGet(result, x, FALSE)}
            /\ Cardinality({i \in 1..Len(result) : result[i][1] = x}) <= 1

\* p is true, then false, then true again, while q stays true
C18_Witness ==
    /\ pc = "inv_done"
    /\ Len(call[1]) + Len(call[2]) = 3
    /\ [k \in 1..3 |-> DictGet((call[1] \o call[2])[k], <<"p">>, FALSE)] = <<TRUE, FALSE, TRUE>>
    /\ \A k \in 1..3 : DictHas((call[1] \o call[2])[k], <<"p">>)
    /\ \A k \in 1..3 : DictHas((call[1] \o call[2])[k], <<"q">>)
    /\ result = <<<<<<"q">>, TRUE>>>>

-----------------------------------------------------------------------------
(* The check of the two sides when a CTLProblem is constructed, for the    *)
(* formulas over p, the literal true, a context, the quantifiers, negation, *)
(* next, always, conjunction and until                                     *)

MaxCtlNodes == 5

RECURSIVE CtlFormulasOfSize(_)
\* The formulas with exactly n nodes given to CTLProblem
CtlFormulasOfSize(n) ==
    IF n < 1 THEN {}
    ELSE IF n = 1 THEN {Var(<<"p">>), Lit(TRUE)}
    ELSE {<<op, f>> : op \in {"NEGATION", "FORALL", "EXISTS", "NEXT", "ALWAYS"},
                      f \in CtlFormulasOfSize(n - 1)}
         \cup {Ctx(<<"c">>, f) : f \in CtlFormulasOfSize(n - 1)}
         \cup UNION {{<<op, a, b>> : op \in {"CONJUNCTION", "UNTIL"},
                          a \in CtlFormulasOfSize(i), b \in CtlFormulasOfSize(n - 1 - i)} :
                     i \in 1..(n - 2)}

\* The pairs (left, right) with at most MaxCtlNodes nodes in total
CtlPairs ==
    UNION {CtlFormulasOfSize(i) \X UNION {CtlFormulasOfSize(j) : j \in 1..(MaxCtlNodes - i)} :
           i \in 1..(MaxCtlNodes - 1)}

InitCtl ==
    /\ \E lr \in CtlPairs : left = lr[1] /\ right = lr[2]
    /\ monotonic \in BOOLEAN
    /\ logic = "ctl"
    /\ ctx_map = <<>>
    /\ ctx_ap_map = <<>>
    /\ gen = None
    /\ canonical = None
    /\ inst = None
    /\ subst = None
    /\ call = None
    /\ result = None
    /\ var_map = None
    /\ pc = "ctl_new"

\* CTLProblem.__init__, the check of the formulas: _check_ctl on left and on right
CheckFormulas ==
    /\ pc = "ctl_new"
    /\ result' = check_sides(left, right)
    /\ pc' = "ctl_checked"
    /\ UNCHANGED <<problemVars, call, var_map>>

NextCtl == CheckFormulas

SpecCtl == InitCtl /\ [][NextCtl]_vars

RECURSIVE WellFormedCtl(_, _)
\* The formula is well-formed CTL at every position: no temporal operator
\* outside a path quantifier (one negation may come between), no Boolean
\* operator or context directly under a path quantifier, no path formula
\* negated or quantified twice
WellFormedCtl(ast, quant) ==
    LET head == Head1(ast)
    IN  CASE head \in {"LIT", "VAR", "HOLE"} -> TRUE
          [] head = "CTX" -> quant = 0 /\ WellFormedCtl(ast[3], 0)
          [] head = "NEGATION" ->
                quant # 2 /\ WellFormedCtl(ast[2], IF quant = 1 THEN 2 ELSE quant)
          [] head \in {"FORALL", "EXISTS"} -> quant = 0 /\ WellFormedCtl(ast[2], 1)
          [] OTHER ->
                /\ head \notin (IF quant = 0 THEN TEMPORAL_OPS ELSE BOOLEAN_OPS)
                /\ \A i \in 2..Len(ast) : WellFormedCtl(ast[i], 0)

\* C19: constructing a CTLProblem raises InvalidFormulaError naming the
\* offending side exactly when that side is not well-formed CTL, at any
\* position of the tree including the second operand of a binary operator,
\* and well-formed formulas, literals included, are accepted without error.
C19_RejectsExactlyIllFormed ==
    pc = "ctl_checked" =>
        /\ ~WellFormedCtl(left, 0) => result = <<"InvalidFormulaError", "left">>
        /\ (WellFormedCtl(left, 0) /\ ~WellFormedCtl(right, 0)) =>
               result = <<"InvalidFormulaError", "right">>
        /\ (WellFormedCtl(left, 0) /\ WellFormedCtl(right, 0)) => result = None

-----------------------------------------------------------------------------
(* Successive to_ctlsat encodings that share the var_map of one CTLProblem. *)
(* The names of the propositions are taken in the order of their first use. *)

MaxCtlNames == 208

\* The letters of the names of the propositions
NameLetters ==
    <<"a", "b", "c", "d", "e", "f", "g", "h", "i", "j", "k", "l", "m", "n", "o", "p">>

\* The k-th name of a proposition, a string of two letters
CtlName(k) ==
    <<NameLetters[(k \div Len(NameLetters)) + 1], NameLetters[(k % Len(NameLetters)) + 1]>>

\* The names that the next formula may use, given the names encoded so far:
\* the first and the last name encoded, and the first name not encoded yet
NextNames(vm) ==
    {CtlName(k) : k \in {0, Len(vm) - 2, Len(vm) - 1} \cap 0..(MaxCtlNames - 1)}

\* The formulas given to to_ctlsat: a proposition, a hole, a literal, and
\* operators over propositions, one of them with the two first names not
\* encoded yet
CtlsatInputs(vm) ==
    {Var(x) : x \in NextNames(vm)} \cup {Hole, Lit(TRUE)}
    \cup {<<"NEXT", Var(CtlName(k))>> : k \in {Len(vm) - 1} \cap 0..(MaxCtlNames - 1)}
    \cup {<<"UNTIL", Var(CtlName(0)), Var(CtlName(k))>> :
              k \in {Len(vm) - 1} \cap 0..(MaxCtlNames - 1)}
    \cup {<<"CONJUNCTION", Var(CtlName(k)), Var(CtlName(k + 1))>> :
              k \in {Len(vm) - 1} \cap 0..(MaxCtlNames - 2)}

InitCtlsat ==
    /\ left = None
    /\ right = None
    /\ monotonic = FALSE
    /\ logic = "ctl"
    /\ ctx_map = <<>>
    /\ ctx_ap_map = <<>>
    /\ gen = None
    /\ canonical = None
    /\ inst = None
    /\ subst = None
    /\ call = None
    /\ result = None
    /\ var_map = CTLVarMap
    /\ pc = "ctlsat_new"

\* to_ctlsat(formula, self.var_map)
EncodeCtlsat ==
    /\ pc \in {"ctlsat_new", "ctlsat_encoded"}
    /\ \E formula \in CtlsatInputs(var_map) :
          LET encoded == to_ctlsat(formula, var_map)
          IN  /\ call' = formula
              /\ result' = encoded.out
              /\ var_map' = encoded.var_map
    /\ pc' = "ctlsat_encoded"
    /\ UNCHANGED problemVars

NextCtlsat == EncodeCtlsat

SpecCtlsat == InitCtlsat /\ [][NextCtlsat]_vars

\* The codes of a var_map are distinct, none is a reserved character or the
\* character of the hole, and none exceeds a byte
CodesValid(vm) ==
    /\ \A i, j \in 1..Len(vm) : vm[i][2] = vm[j][2] => i = j
    /\ \A i \in 1..Len(vm) :
          /\ vm[i][2] \notin CTLSAT_RESERVED \cup {ord("!")}
          /\ vm[i][2] <= MaxByte

\* C20: after any sequence of to_ctlsat encodings sharing one var_map, the
\* map from names to codes is injective, a name keeps the code it was first
\* given, no code is a reserved character or the hole character, every code
\* is at most 255, and encoding a new proposition when no code is left
\* raises an error instead of wrapping around or reusing a code.
C20_CodesKeptAndDistinct ==
    /\ [](var_map # None => CodesValid(var_map))
    /\ [][/\ Len(var_map') >= Len(var_map)
          /\ \A i \in 1..Len(var_map) : var_map'[i] = var_map[i]
          /\ (\E x \in VarNames(call') : ~DictHas(var_map', x)) <=> result' = ValueError
          /\ result' = ValueError =>
                \A c \in (var_map'[Len(var_map')][2] + 1)..MaxByte : c \in CTLSAT_RESERVED
          /\ (result' # ValueError /\ Head1(call') = "VAR") =>
                result' = <<"bytes", <<DictGet(var_map', call'[2], 0)>>>>
         ]_vars

\* An encoding of a new proposition was refused after the code 255 was given
C20_Witness ==
    /\ pc = "ctlsat_encoded"
    /\ result = ValueError
    /\ var_map[Len(var_map)][2] = MaxByte
    /\ Len(var_map) > 200

-----------------------------------------------------------------------------
(* The simplifier as a bottom-up rewriting *)

\* The rule of the head applied once to a node whose children are simplified
NodeRule(node, valuation) ==
    LET head == Head1(node)
        args == Args(node)
    IN  CASE head \in {"LIT", "HOLE"} -> node
          [] head = "VAR"         -> simplify_VAR(args, node, valuation)
          [] head = "NEGATION"    -> simplify_NEGATION(args, node)
          [] head = "DISJUNCTION" -> simplify_DISJUNCTION(args, node)
          [] head = "CONJUNCTION" -> simplify_CONJUNCTION(args, node)
          [] head = "IMPLICATION" -> simplify_IMPLICATION(args, node)
          [] head = "EQUIVALENCE" -> simplify_EQUIVALENCE(args, node)
          [] head = "EXCLUSION"   -> simplify_EXCLUSION(args, node)
          [] head = "UNTIL"       -> simplify_UNTIL(args, node)
          [] head = "WUNTIL"      -> simplify_WUNTIL(args, node)
          [] head = "RELEASE"     -> simplify_RELEASE(args, node)
          [] head = "SRELEASE"    -> simplify_SRELEASE(args, node)
          [] OTHER                -> simplify_unary(head, args)

\* The node of the formula rebuilt over its simplified children
RebuiltNode(formula, valuation) ==
    IF Head1(formula) \in {"LIT", "VAR", "HOLE"} THEN formula
    ELSE <<Head1(formula)>> \o
         [i \in 1..(Len(formula) - 1) |-> simplify(formula[i + 1], valuation)]

\* C22: simplify(f, v) is bottom-up for every context-free formula f: the
\* result is the node-local rule applied to the node rebuilt over its
\* simplified children, so when no rule fires the result is that node with
\* each child replaced by its simplified form, and no variable bound in v
\* occurs in the result.
C22_BottomUp ==
    pc = "simp_done" =>
        /\ result = NodeRule(RebuiltNode(call.formula, call.valuation), call.valuation)
        /\ \A x \in VarNames(result) : ~DictHas(call.valuation, x)

-----------------------------------------------------------------------------
(* The simplifier on formulas with contexts and holes *)

MaxSimpCtxNodes == 4

RECURSIVE SimpCtxFormulasOfSize(_)
\* The formulas with exactly n nodes, contexts included, given to the simplifier
SimpCtxFormulasOfSize(n) ==
    IF n < 1 THEN {}
    ELSE IF n = 1 THEN {Lit(TRUE), Var(<<"p">>), Hole}
    ELSE {<<op, f>> : op \in {"NEGATION", "ALWAYS"}, f \in SimpCtxFormulasOfSize(n - 1)}
         \cup {Ctx(<<"c">>, f) : f \in SimpCtxFormulasOfSize(n - 1)}
         \cup UNION {{<<op, a, b>> : op \in {"CONJUNCTION", "UNTIL"},
                          a \in SimpCtxFormulasOfSize(i),
                          b \in SimpCtxFormulasOfSize(n - 1 - i)} :
                     i \in 1..(n - 2)}

InitSimpCtx ==
    /\ \E n \in 1..MaxSimpCtxNodes : \E f \in SimpCtxFormulasOfSize(n) :
          \E v \in SimpValuations : call = [formula |-> f, valuation |-> v]
    /\ result = None
    /\ var_map = None
    /\ left = None
    /\ right = None
    /\ monotonic = TRUE
    /\ logic = "ltl"
    /\ ctx_map = <<>>
    /\ ctx_ap_map = <<>>
    /\ gen = None
    /\ canonical = None
    /\ inst = None
    /\ subst = None
    /\ pc = "simp_new"

SpecSimpCtx == InitSimpCtx /\ [][NextSimp]_vars

\* C30: simplify(f, v) terminates and returns a formula for every finite
\* formula tree f and every valuation v, including formulas that contain
\* Context or Hole nodes.
C30_ReturnsFormula ==
    pc = "simp_done" => result \notin Errors

-----------------------------------------------------------------------------
(* Eventually and Always over three-valued traces *)

\* The value that decides the operator: true for Eventually, false for Always
Dominant(head) == IF head = "EVENTUALLY" THEN "True" ELSE "False"

\* The value of Eventually (or dually Always) on the cycle of the operand a
CycleValue(head, a) ==
    IF Dominant(head) \in Range(a[2]) THEN Dominant(head)
    ELSE IF "None" \in Range(a[2]) THEN "None"
    ELSE KleeneNot(Dominant(head))

\* The value of Eventually (or dually Always) at position k of the prefix of a
PrefixValue(head, a, k) ==
    LET later == {a[1][j] : j \in k..Len(a[1])}
    IN  IF CycleValue(head, a) = Dominant(head) \/ Dominant(head) \in later
        THEN Dominant(head)
        ELSE IF CycleValue(head, a) = "None" \/ "None" \in later THEN "None"
        ELSE KleeneNot(Dominant(head))

\* C23: for Eventually over an operand trace (and dually Always, swapping
\* true and false): if the operand's cycle contains true, every position of
\* the result is true; otherwise the cycle is unknown if the operand's cycle
\* contains unknown, else false; the prefix at position k is true if the
\* operand is true at some prefix position j >= k, otherwise unknown if the
\* cycle value is unknown or the operand is unknown at some j >= k, otherwise
\* false.  The result is always a trace, never an error.
C23_EventuallyAlways ==
    (pc = "eval_done" /\ Head1(call.formula) \in {"EVENTUALLY", "ALWAYS"}) =>
        LET head == Head1(call.formula)
            a == EvalArg(1)
        IN  /\ result \notin Errors
            /\ result[2] = Repeat(CycleValue(head, a), Len(a[2]))
            /\ result[1] = [k \in 1..Len(a[1]) |-> PrefixValue(head, a, k)]

\* The two-valued lassos that replace each unknown of the valuation by true
\* or false
Completions(val) ==
    LET fill(seq) == {c \in [1..Len(seq) -> {"True", "False"}] :
                         \A k \in 1..Len(seq) : seq[k] # "None" => c[k] = seq[k]}
        known(var, s) == IF var \in DOMAIN val.d THEN val.d[var][s]
                         ELSE Repeat("None", IF s = 1 THEN val.prefix_len ELSE val.cycle_len)
    IN  {[d |-> d, cycle_len |-> val.cycle_len, prefix_len |-> val.prefix_len] :
            d \in {f \in [EvalProps -> UNION {fill(known(var, 1)) \X fill(known(var, 2)) :
                                                var \in EvalProps}] :
                      \A var \in EvalProps :
                          f[var] \in fill(known(var, 1)) \X fill(known(var, 2))}}

\* C27: whenever evaluate reports a definite value at a position, every
\* completion of the valuation that replaces each unknown by true or false
\* gives the formula that same classical LTL value at that position.
C27_DefiniteIsSound ==
    (pc = "eval_done" /\ result \notin Errors) =>
        LET val == call.valuation
        IN  \A c \in Completions(val) :
               /\ \A k \in 1..val.prefix_len :
                     (k <= Len(result[1]) /\ result[1][k] # "None") =>
                         result[1][k] = py_bool(Holds(c, call.formula, k))
               /\ \A k \in 1..val.cycle_len :
                     (k <= Len(result[2]) /\ result[2][k] # "None") =>
                         result[2][k] = py_bool(Holds(c, call.formula, val.prefix_len + k))

-----------------------------------------------------------------------------
(* The simplifier against the classical semantics of LTL: a formula without *)
(* contexts and holes over the proposition p, a valuation that leaves p     *)
(* free or binds it, and a definite lasso on which p has the bound value    *)

MaxSemNodes == 3

MaxSemTraceLen == 2

LtlUnary == {"NEGATION", "NEXT", "ALWAYS", "EVENTUALLY"}

RECURSIVE SemFormulasOfSize(_)
\* The LTL formulas with exactly n nodes given to the simplifier
SemFormulasOfSize(n) ==
    IF n < 1 THEN {}
    ELSE IF n = 1 THEN {Lit(TRUE), Lit(FALSE), Var(<<"p">>)}
    ELSE {<<op, f>> : op \in LtlUnary, f \in SemFormulasOfSize(n - 1)}
         \cup UNION {{<<op, a, b>> : op \in BinaryOperators,
                          a \in SemFormulasOfSize(i), b \in SemFormulasOfSize(n - 1 - i)} :
                     i \in 1..(n - 2)}

\* The steps of a definite trace over p
SemSteps == [{<<"p">>} -> {"True", "False"}]

\* The definite lassos with at most MaxSemTraceLen steps
SemTraces ==
    {tr \in UNION {[1..n -> SemSteps] \X [1..m -> SemSteps] :
                      n \in 0..(MaxSemTraceLen - 1), m \in 1..MaxSemTraceLen} :
        Len(tr[1]) + Len(tr[2]) <= MaxSemTraceLen}

\* Each variable bound in the valuation has its value at every position
Agrees(valuation, tr) ==
    \A i \in 1..Len(valuation) : \A s \in 1..2 : \A k \in 1..Len(tr[s]) :
        tr[s][k][valuation[i][1]] = py_bool(valuation[i][2])

InitSimpSem ==
    /\ \E n \in 1..MaxSemNodes : \E f \in SemFormulasOfSize(n) :
          \E v \in SimpValuations : \E tr \in SemTraces :
             /\ Agrees(v, tr)
             /\ call = [formula |-> f, valuation |-> v, trace |-> from_trace(tr[1], tr[2])]
    /\ result = None
    /\ var_map = None
    /\ left = None
    /\ right = None
    /\ monotonic = TRUE
    /\ logic = "ltl"
    /\ ctx_map = <<>>
    /\ ctx_ap_map = <<>>
    /\ gen = None
    /\ canonical = None
    /\ inst = None
    /\ subst = None
    /\ pc = "simp_new"

SpecSimpSem == InitSimpSem /\ [][NextSimp]_vars

\* C26: simplify preserves meaning: on every definite lasso on which each
\* variable bound in v has the value v gives it, simplify(f, v) has the same
\* classical LTL truth value as f at every position, for every operator.
C26_MeaningPreserved ==
    pc = "simp_done" =>
        /\ result \notin Errors
        /\ \A k \in 1..(call.trace.prefix_len + call.trace.cycle_len) :
              Holds(call.trace, result, k) = Holds(call.trace, call.formula, k)

-----------------------------------------------------------------------------
(* The canonical contexts of a problem simplified with the invariants of    *)
(* its two counterexamples                                                  *)

\* The invariants of a counterexample: None when there is no counterexample,
\* otherwise a valuation of p and q, empty when no proposition is invariant
ModelValuations ==
    {None, OptDict(<<>>), OptDict(<<<<<<"p">>, TRUE>>>>),
     OptDict(<<<<<<"p">>, FALSE>>, <<<<"q">>, TRUE>>>>)}

InitModels ==
    /\ \E lr \in ScenarioPairs : left = lr[1] /\ right = lr[2]
    /\ monotonic \in BOOLEAN
    /\ logic \in {"ltl", "bool"}
    /\ ctx_map = <<>>
    /\ ctx_ap_map = <<>>
    /\ gen = None
    /\ canonical = None
    /\ inst = None
    /\ subst = None
    /\ call = None
    /\ result = None
    /\ var_map = None
    /\ pc = "new"

\* self._simplify(canonical, lnr_model, rnl_model), called when one of the
\* models exists
SimplifyWithModels ==
    /\ pc = "canonical"
    /\ \E lnr \in ModelValuations : \E rnl \in ModelValuations :
          /\ lnr # None \/ rnl # None
          /\ call' = [lnr |-> lnr, rnl |-> rnl]
          /\ result' = _simplify(canonical, lnr, rnl)
    /\ pc' = "models_simplified"
    /\ UNCHANGED <<problemVars, var_map>>

NextModels == Translate \/ CanonicalContext \/ SimplifyWithModels

SpecModels == InitModels /\ [][NextModels]_vars

\* A mapping with exactly the context variables of the canonical contexts
CanonicalKeys(value) ==
    /\ value # None
    /\ value[1] = "dict"
    /\ DictKeys(value[2]) = DictKeys(canonical)

\* C28: Problem._simplify, called with at least one valuation that is not
\* None, an empty valuation included, returns either one mapping with
\* exactly the context-variable keys of canonical or a pair of two such
\* mappings; it never returns None or a pair containing None.
C28_ReturnsMappings ==
    pc = "models_simplified" =>
        \/ CanonicalKeys(result)
        \/ /\ result # None
           /\ result[1] = "tuple"
           /\ CanonicalKeys(result[2])
           /\ CanonicalKeys(result[3])

-----------------------------------------------------------------------------
(* The reverse index against the occurrence table *)

RECURSIVE TotalOccurrences(_)
\* The number of occurrences of the first n context variables of the table
TotalOccurrences(n) ==
    IF n = 0 THEN 0 ELSE Len(Occs(n)) + TotalOccurrences(n - 1)

\* C24: after translate, the reverse index is the exact inverse of the
\* occurrence table: ctx_ap_map[prop] = (c, arg) if and only if
\* ctx_map[c][arg] = prop, so len(ctx_ap_map) is the total number of
\* distinct (context variable, argument) occurrences.
C24_ReverseIndexInverse ==
    Translated =>
        /\ \A j \in 1..Len(ctx_ap_map) :
              \E i \in 1..Len(ctx_map) : \E k \in 1..Len(Occs(i)) :
                 /\ ctx_map[i][1] = ctx_ap_map[j][2][1]
                 /\ Occs(i)[k][1] = ctx_ap_map[j][2][2]
                 /\ Occs(i)[k][2] = ctx_ap_map[j][1]
        /\ \A i \in 1..Len(ctx_map) : \A k \in 1..Len(Occs(i)) :
              \E j \in 1..Len(ctx_ap_map) :
                 /\ ctx_ap_map[j][1] = Occs(i)[k][2]
                 /\ ctx_ap_map[j][2][1] = ctx_map[i][1]
                 /\ ctx_ap_map[j][2][2] = Occs(i)[k][1]
        /\ Len(ctx_ap_map) = TotalOccurrences(Len(ctx_map))

-----------------------------------------------------------------------------
(* The canonical contexts on the models of the consistency condition *)

\* The formulas of the problem instantiated with the canonical contexts
LeftInst == instantiate_formula(left, canonical)
RightInst == instantiate_formula(right, canonical)

\* The propositions of the formulas of the problem, old and fresh
ProblemNames ==
    UNION {VarNames(f) : f \in {gen[1], gen[2], gen[3], inst.result, LeftInst, RightInst}}
        \cup {inst.prop}

\* C25: in propositional logic, in the monotonic and in the general mode,
\* for every occurrence (arg, prop) of a context variable c and every Boolean
\* valuation that satisfies the consistency condition of translate, the
\* canonical context of c instantiated with arg has the truth value of
\* Variable(prop); so left and right instantiated with the canonical contexts
\* agree with the context-free formulas on every model of the condition.
C25_CanonicalAgreesOnModels ==
    (pc = "instantiated" /\ logic = "bool") =>
        \A val \in [ProblemNames -> BOOLEAN] :
            BoolEval(gen[3], val) =>
                /\ BoolEval(inst.result, val) = val[inst.prop]
                /\ BoolEval(LeftInst, val) = BoolEval(gen[1], val)
                /\ BoolEval(RightInst, val) = BoolEval(gen[2], val)

\* A canonical context with two occurrences instantiated in each mode, on a
\* problem whose condition has a model and a valuation that is not a model
C25_Witness ==
    /\ pc = "instantiated"
    /\ logic = "bool"
    /\ ~monotonic
    /\ Len(Occs(inst.ctx)) >= 2
    /\ \E val \in [ProblemNames -> BOOLEAN] : BoolEval(gen[3], val) /\ val[inst.prop]
    /\ \E val \in [ProblemNames -> BOOLEAN] : ~BoolEval(gen[3], val)

-----------------------------------------------------------------------------
(* _adapt_ctl on its own, on the CTL formulas over p, the literal true, a   *)
(* context, the quantifiers, negation, next and the binary operators that   *)
(* it rewrites                                                              *)

MaxAdaptNodes == 5

RECURSIVE AdaptFormulasOfSize(_)
\* The formulas with exactly n nodes given to _adapt_ctl
AdaptFormulasOfSize(n) ==
    IF n < 1 THEN {}
    ELSE IF n = 1 THEN {Var(<<"p">>), Lit(TRUE)}
    ELSE {<<op, f>> : op \in {"NEGATION", "FORALL", "EXISTS", "NEXT"},
                      f \in AdaptFormulasOfSize(n - 1)}
         \cup {Ctx(<<"c">>, f) : f \in AdaptFormulasOfSize(n - 1)}
         \cup UNION {{<<op, a, b>> :
                          op \in {"CONJUNCTION", "EQUIVALENCE", "EXCLUSION",
                                  "UNTIL", "WUNTIL", "RELEASE", "SRELEASE"},
                          a \in AdaptFormulasOfSize(i), b \in AdaptFormulasOfSize(n - 1 - i)} :
                     i \in 1..(n - 2)}

InitAdapt ==
    /\ \E n \in 1..MaxAdaptNodes : call \in AdaptFormulasOfSize(n)
    /\ result = None
    /\ var_map = None
    /\ left = None
    /\ right = None
    /\ monotonic = TRUE
    /\ logic = "ctl"
    /\ ctx_map = <<>>
    /\ ctx_ap_map = <<>>
    /\ gen = None
    /\ canonical = None
    /\ inst = None
    /\ subst = None
    /\ pc = "adapt_new"

\* _adapt_ctl(formula)
AdaptCtl ==
    /\ pc = "adapt_new"
    /\ result' = _adapt_ctl(call, "None", FALSE)
    /\ pc' = "adapt_done"
    /\ UNCHANGED <<problemVars, call, var_map>>

NextAdapt == AdaptCtl

SpecAdapt == InitAdapt /\ [][NextAdapt]_vars

\* The operators that to_ctlsat can encode
Encodable ==
    {"NEGATION", "DISJUNCTION", "CONJUNCTION", "IMPLICATION", "FORALL", "EXISTS",
     "NEXT", "EVENTUALLY", "ALWAYS", "UNTIL"}

RECURSIVE AdaptedTree(_)
\* A well-formed tree of literals, variables, contexts and encodable
\* operators, each with formula tuples as children in the operator's arity
AdaptedTree(ast) ==
    LET head == Head1(ast)
    IN  CASE head \in {"LIT", "VAR"} -> Len(ast) = 2
          [] head = "CTX" -> Len(ast) = 3 /\ AdaptedTree(ast[3])
          [] head \in Encodable ->
                /\ Len(ast) = (IF head \in {"DISJUNCTION", "CONJUNCTION", "IMPLICATION", "UNTIL"}
                               THEN 3 ELSE 2)
                /\ \A i \in 2..Len(ast) : AdaptedTree(ast[i])
          [] OTHER -> FALSE

\* C29: for every formula accepted by _check_ctl, _adapt_ctl returns a
\* well-formed formula tree that uses only Literal, Variable, Context and the
\* operators to_ctlsat can encode, negated path formulas included, and
\* applying _adapt_ctl to its own output returns the same tree.
C29_AdaptedWellFormed ==
    (pc = "adapt_done" /\ _check_ctl(call, 0) = None) =>
        /\ result \notin Errors
        /\ AdaptedTree(result)
        /\ _adapt_ctl(result, "None", FALSE) = result

-----------------------------------------------------------------------------
(* Specification of the two front ends on a CTL problem: one iteration of   *)
(* the read-solve loop of the command line (__main__.py) and one request    *)
(* served by MainHandler.post (service.py), with the outcomes of the runs   *)
(* of ctl-sat as inputs.                                                    *)

\* Pairs of parsed CTL formulas given to the front ends; the constructor
\* rejects the left formula of the next to last pair and the right formula
\* of the last one
OraclePairs ==
    LET p == Var(<<"p">>)
        cp == Ctx(<<"c">>, Var(<<"p">>))
        cq == Ctx(<<"c">>, Var(<<"q">>))
        AXp == <<"FORALL", <<"NEXT", p>>>>
    IN  { <<p, p>>, <<AXp, p>>, <<cp, cp>>, <<cp, p>>, <<cp, AXp>>,
          <<<<"EXISTS", <<"EVENTUALLY", cq>>>>, cp>>,
          <<<<"NEXT", p>>, p>>, <<p, <<"NEXT", p>>>> }

\* The outcomes of the runs of ctl-sat that a front end may start: two for
\* solve and, with --check-with-canonical, two for solve_with_context
OracleRuns(front, check_with_canonical) ==
    IF front = "cli" /\ check_with_canonical
    THEN [1..4 -> OracleOutcomes]
    ELSE [1..2 -> OracleOutcomes]

InitOracle ==
    /\ \E lr \in OraclePairs : left = lr[1] /\ right = lr[2]
    /\ monotonic \in BOOLEAN
    /\ logic = "ctl"
    /\ ctx_map = <<>>
    /\ ctx_ap_map = <<>>
    /\ gen = None
    /\ canonical = None
    /\ inst = None
    /\ subst = None
    /\ \E front \in {"cli", "service"} : \E check_with_canonical \in BOOLEAN :
          /\ front = "service" => ~check_with_canonical
          /\ \E outcomes \in OracleRuns(front, check_with_canonical) :
                call = [front |-> front, check_with_canonical |-> check_with_canonical,
                        outcomes |-> outcomes]
    /\ result = None
    /\ var_map = None
    /\ pc = "parsed"

\* What a front end has told its user: verdict is the answer of solve and
\* holds the answer of solve_with_context ("None" without an answer), error
\* the exception raised and reported whether a message about it was written
Answer(verdict, holds, error, reported) ==
    [verdict |-> verdict, holds |-> holds, error |-> error, reported |-> reported]

\* except InvalidFormulaError
IsInvalidFormulaError(e) == Head1(e) = "InvalidFormulaError"

\* except InvalidFormulaError, except TimeoutExpired (service.py, lines 75-81)
HandledByPost(e) == IsInvalidFormulaError(e) \/ e = TimeoutExpired

\* The body of the loop of main after both formulas are parsed (__main__.py,
\* lines 108-149), with the default --witness auto: pc is "cli_loop" when
\* the loop goes on to the next pair and "cli_exit" when an exception leaves
\* the loop and main with it
MainLoopBody ==
    /\ pc = "parsed"
    /\ call.front = "cli"
    /\ \E problem \in {CTLProblem_init(left, right, ~monotonic)} :
          IF problem.error # None
          THEN /\ result' = Answer("None", "None", problem.error,
                                   IsInvalidFormulaError(problem.error))
               /\ pc' = IF IsInvalidFormulaError(problem.error)
                        THEN "cli_loop" ELSE "cli_exit"
               /\ UNCHANGED <<left, right, gen, ctx_map, ctx_ap_map, var_map, canonical>>
          ELSE
          /\ left' = problem.left
          /\ right' = problem.right
          /\ gen' = problem.gen
          /\ ctx_map' = problem.ctx_map
          /\ ctx_ap_map' = problem.ctx_ap_map
          /\ \E solved \in {CTLProblem_solve(problem.gen, problem.var_map,
                                  <<call.outcomes[1], call.outcomes[2]>>)} :
                IF solved.error # None
                THEN /\ var_map' = solved.var_map
                     /\ result' = Answer("None", "None", solved.error,
                                         IsInvalidFormulaError(solved.error))
                     /\ pc' = IF IsInvalidFormulaError(solved.error)
                              THEN "cli_loop" ELSE "cli_exit"
                     /\ UNCHANGED canonical
                ELSE IF solved.equivalent = "True"
                THEN /\ var_map' = solved.var_map
                     /\ result' = Answer("True", "None", None, FALSE)
                     /\ pc' = "cli_loop"
                     /\ UNCHANGED canonical
                ELSE IF ~call.check_with_canonical
                THEN /\ var_map' = solved.var_map
                     /\ canonical' = canonical_context(problem.ctx_map, monotonic, "ctl")
                     /\ result' = Answer("False", "False", None, FALSE)
                     /\ pc' = "cli_loop"
                ELSE \E checked \in {CTLProblem_solve_with_context(problem.left,
                                         problem.right, problem.ctx_map, monotonic,
                                         solved.var_map,
                                         <<call.outcomes[3], call.outcomes[4]>>)} :
                        IF checked.error # None
                        THEN /\ var_map' = checked.var_map
                             /\ result' = Answer("False", "None", checked.error, FALSE)
                             /\ pc' = "cli_exit"
                             /\ UNCHANGED canonical
                        ELSE /\ var_map' = checked.var_map
                             /\ canonical' = checked.canonical
                             /\ result' = Answer("False", checked.holds, None, FALSE)
                             /\ pc' = "cli_loop"
    /\ UNCHANGED <<monotonic, logic, inst, subst, call>>

\* MainHandler.post after both formulas are parsed (service.py, lines
\* 64-120): pc is "responded" when post has written a response and
\* "post_raised" when an exception leaves post
Post ==
    /\ pc = "parsed"
    /\ call.front = "service"
    /\ \E problem \in {CTLProblem_init(left, right, ~monotonic)} :
          IF problem.error # None
          THEN /\ result' = Answer("None", "None", problem.error,
                                   HandledByPost(problem.error))
               /\ pc' = IF HandledByPost(problem.error) THEN "responded" ELSE "post_raised"
               /\ UNCHANGED <<left, right, gen, ctx_map, ctx_ap_map, var_map, canonical>>
          ELSE
          /\ left' = problem.left
          /\ right' = problem.right
          /\ gen' = problem.gen
          /\ ctx_map' = problem.ctx_map
          /\ ctx_ap_map' = problem.ctx_ap_map
          /\ \E solved \in {CTLProblem_solve(problem.gen, problem.var_map,
                                  <<call.outcomes[1], call.outcomes[2]>>)} :
                IF solved.error # None
                THEN /\ var_map' = solved.var_map
                     /\ result' = Answer("None", "None", solved.error,
                                         HandledByPost(solved.error))
                     /\ pc' = IF HandledByPost(solved.error)
                              THEN "responded" ELSE "post_raised"
                     /\ UNCHANGED canonical
                ELSE /\ var_map' = solved.var_map
                     /\ canonical' = canonical_context(problem.ctx_map, monotonic, "ctl")
                     /\ result' = Answer(solved.equivalent, "None", None, FALSE)
                     /\ pc' = "responded"
    /\ UNCHANGED <<monotonic, logic, inst, subst, call>>

NextOracle == MainLoopBody \/ Post

SpecOracle == InitOracle /\ [][NextOracle]_vars

\* A run of ctl-sat that gives no answer
OracleFails(outcome) == outcome \in {"timeout", "nonzero", "unexpected", "no_newline"}

\* The front end has started solve, and one of its runs of ctl-sat failed
SolveFailed ==
    /\ pc \in {"cli_loop", "cli_exit", "responded", "post_raised"}
    /\ gen # None
    /\ ~IsInvalidFormulaError(result.error)
    /\ OracleFails(call.outcomes[1]) \/ OracleFails(call.outcomes[2])

\* The command line has started solve_with_context, and one of its runs of
\* ctl-sat failed
SolveWithContextFailed ==
    /\ pc \in {"cli_loop", "cli_exit"}
    /\ call.check_with_canonical
    /\ result.verdict = "False"
    /\ result.error \in {None, TimeoutExpired, ValueError, IndexError}
    /\ OracleFails(call.outcomes[3]) \/ OracleFails(call.outcomes[4])

\* C21: when a run of ctl-sat started by solve or solve_with_context times
\* out, exits with a status other than 0 or prints unexpected output, in the
\* R-and-not-L call or in the L-and-not-R call, the operation gives no
\* verdict, and the front end reports the failure and does not terminate.
C21_OracleFailureReported ==
    /\ SolveFailed =>
          /\ result.verdict = "None"
          /\ result.holds = "None"
          /\ result.reported
          /\ pc \in {"cli_loop", "responded"}
    /\ SolveWithContextFailed =>
          /\ result.holds = "None"
          /\ result.reported
          /\ pc = "cli_loop"

=============================================================================
